---- MODULE Spec2Model ----
(***************************************************************************)
(* A model of entanglement.py, the generator that reads annotated C++      *)
(* headers through libclang and writes a Python ctypes binding.            *)
(*                                                                         *)
(* Strings taken from the C++ source (identifiers, qualified paths) are    *)
(* sequences of character codes, so that '.'.join and Python's string      *)
(* order are computed and not assumed.  The cursors of all translation     *)
(* units form the sequence ast; a cursor is its index in ast, 0 is the     *)
(* translation unit itself.                                                *)
(***************************************************************************)
EXTENDS Integers, Sequences, FiniteSets, TLC

VARIABLES
    ast,               \* the cursors libclang yields for the headers
    diagnostics,       \* per header: does its parse report an error
    clock,             \* datetime.now() of the running process
    hash_seed,         \* the per-process salt of Python's str hash
    pc,                \* position of main()
    header_index,      \* index of the next header of _arg_header_files
    symbols,           \* Dict[str, List[Cursor]], in insertion order
    sorted_symbols,    \* List[List[Cursor]]
    api_index,         \* loop position of emit_python_api
    current_namespace, \* the namespace stack of emit_python_api
    python_api,        \* the API section
    structure_list,    \* the aggregate-layout section
    symbol_table,      \* the symbol-table section
    output_file,       \* the destination path: absent or its content
    raised,            \* the exception that ended the run, or "none"
    run,               \* number of the current run of the generator
    previous_output,   \* what the preceding run left at the destination
    inserted,          \* the cursors handed to symbols_add, in call order
    mapped,            \* the last call of calculate_type_string
    command_line       \* sys.argv[1:] and the four _arg_ globals

vars == <<ast, diagnostics, clock, hash_seed, pc, header_index, symbols,
          sorted_symbols, api_index, current_namespace, python_api,
          structure_list, symbol_table, output_file, raised, run,
          previous_output, inserted, mapped, command_line>>

----------------------------------------------------------------------------
(* Sequences and strings *)

\* Python's str order: code point by code point, a proper prefix first.
RECURSIVE StrLess(_, _)
StrLess(s, t) ==
    IF t = <<>> THEN FALSE
    ELSE IF s = <<>> THEN TRUE
    ELSE IF Head(s) # Head(t) THEN Head(s) < Head(t)
    ELSE StrLess(Tail(s), Tail(t))

\* '.'.join(parts)
RECURSIVE Join(_)
Join(parts) ==
    IF parts = <<>> THEN <<>>
    ELSE IF Len(parts) = 1 THEN parts[1]
    ELSE parts[1] \o <<46>> \o Join(Tail(parts))

StartsWith(s, p) == Len(s) >= Len(p) /\ SubSeq(s, 1, Len(p)) = p

\* sorted(keys): ascending in Python's str order
RECURSIVE SortedStrs(_)
SortedStrs(S) ==
    IF S = {} THEN <<>>
    ELSE LET m == CHOOSE x \in S : \A y \in S \ {x} : StrLess(x, y)
         IN <<m>> \o SortedStrs(S \ {m})

RECURSIVE SortedInts(_)
SortedInts(S) ==
    IF S = {} THEN <<>>
    ELSE LET m == CHOOSE x \in S : \A y \in S : x <= y
         IN <<m>> \o SortedInts(S \ {m})

RECURSIVE Reverse(_)
Reverse(s) == IF s = <<>> THEN <<>> ELSE Reverse(Tail(s)) \o <<Head(s)>>

RECURSIVE Flatten(_)
Flatten(ss) == IF ss = <<>> THEN <<>> ELSE Head(ss) \o Flatten(Tail(ss))

----------------------------------------------------------------------------
(* Types as libclang reports them.  A type is a non-empty sequence of      *)
(* layers, outermost first: any number of TYPEDEF (sugar), POINTER,        *)
(* LVALUEREFERENCE, RVALUEREFERENCE and CONSTANTARRAY layers and one last  *)
(* layer, a fundamental kind, ENUM or RECORD (n is then the declaring      *)
(* cursor) or a kind without declaration.                                  *)

Layer(k, n) == [kind |-> k, n |-> n]

Fund(k) == <<Layer(k, 0)>>
Ptr(t) == <<Layer("POINTER", 0)>> \o t
LRef(t) == <<Layer("LVALUEREFERENCE", 0)>> \o t
RRef(t) == <<Layer("RVALUEREFERENCE", 0)>> \o t
Arr(t, n) == <<Layer("CONSTANTARRAY", n)>> \o t
Typedef(t) == <<Layer("TYPEDEF", 0)>> \o t
RecordT(d) == <<Layer("RECORD", d)>>
EnumT(d) == <<Layer("ENUM", d)>>

PointerKinds == {"POINTER", "LVALUEREFERENCE", "RVALUEREFERENCE"}
ReferenceKinds == {"LVALUEREFERENCE", "RVALUEREFERENCE"}

\* Type.kind of the type as written
TypeKind(t) == t[1].kind

\* Type.get_canonical(): every typedef is resolved, at every depth
RECURSIVE get_canonical(_)
get_canonical(t) ==
    IF t = <<>> THEN <<>>
    ELSE (IF Head(t).kind = "TYPEDEF" THEN <<>> ELSE <<Head(t)>>)
         \o get_canonical(Tail(t))

\* Type.get_pointee(), Type.get_array_element_type()
get_pointee(t) == Tail(t)

\* Type.get_declaration(): the declaring cursor, 0 when there is none
get_declaration(t) == IF t[1].kind \in {"RECORD", "ENUM"} THEN t[1].n ELSE 0

----------------------------------------------------------------------------
(* Cursors.  Every cursor is a record of the attributes the generator      *)
(* reads; attributes that do not apply to a kind keep their default.       *)
(* ENUM_CONSTANT_DECL, FIELD_DECL, CXX_BASE_SPECIFIER and ANNOTATE_ATTR     *)
(* children are the attributes constants, fields, bases and annotated; a   *)
(* child that carries an annotation of its own is a cursor as well.        *)

NoCursor ==
    [kind |-> "NO_DECL_FOUND", spelling |-> <<>>, parent |-> 0, tu |-> 0,
     usr |-> 0, annotated |-> FALSE, anonymous |-> FALSE,
     access |-> "INVALID", linkage |-> "EXTERNAL", is_definition |-> TRUE,
     variadic |-> FALSE, va_list |-> FALSE, static |-> FALSE,
     virtual |-> FALSE, pure |-> FALSE, extern_c |-> FALSE,
     args |-> <<>>, result |-> Fund("VOID"), bases |-> <<>>,
     fields |-> <<>>, enum_type |-> Fund("INT"), constants |-> <<>>,
     scoped |-> FALSE, size |-> 0]

Cursors == 1..Len(ast)

FunctionKinds == {"FUNCTION_DECL", "CONSTRUCTOR", "DESTRUCTOR", "CXX_METHOD"}
RecordKinds == {"CLASS_DECL", "STRUCT_DECL"}

\* Cursor.get_children() restricted to declarations, in source order
get_children(c, tu) ==
    SortedInts({d \in Cursors : ast[d].parent = c /\ ast[d].tu = tu})

\* An operation either returns a value or raises: err is "" or the message.
Ok(v) == [err |-> "", val |-> v]
Raise(msg) == [err |-> msg, val |-> <<>>]

\* the statements after a call: skipped when the call raised, run on the
\* value it returned otherwise
Bind(result, Rest(_)) == IF result.err # "" THEN result ELSE Rest(result.val)

\* _operator_name_map, each entry <<C++ name, Python name>>
operator_name_map == {
    <<<<111, 112, 101, 114, 97, 116, 111, 114, 43>>,
      <<95, 95, 97, 100, 100, 95, 95>>>>, \* operator+ : __add__
    <<<<111, 112, 101, 114, 97, 116, 111, 114, 38>>,
      <<95, 95, 97, 110, 100, 95, 95>>>>, \* operator& : __and__
    <<<<111, 112, 101, 114, 97, 116, 111, 114, 40, 41>>,
      <<95, 95, 99, 97, 108, 108, 95, 95>>>>, \* operator() : __call__
    <<<<111, 112, 101, 114, 97, 116, 111, 114, 61, 61>>,
      <<95, 95, 101, 113, 95, 95>>>>, \* operator== : __eq__
    <<<<111, 112, 101, 114, 97, 116, 111, 114, 62, 61>>,
      <<95, 95, 103, 101, 95, 95>>>>, \* operator>= : __ge__
    <<<<111, 112, 101, 114, 97, 116, 111, 114, 62>>,
      <<95, 95, 103, 116, 95, 95>>>>, \* operator> : __gt__
    <<<<111, 112, 101, 114, 97, 116, 111, 114, 91, 93>>,
      <<95, 95, 103, 101, 116, 105, 116, 101, 109, 95, 95>>>>, \* operator[] : __getitem__
    <<<<111, 112, 101, 114, 97, 116, 111, 114, 38, 61>>,
      <<95, 95, 105, 97, 110, 100, 95, 95>>>>, \* operator&= : __iand__
    <<<<111, 112, 101, 114, 97, 116, 111, 114, 43, 61>>,
      <<95, 95, 105, 97, 100, 100, 95, 95>>>>, \* operator+= : __iadd__
    <<<<111, 112, 101, 114, 97, 116, 111, 114, 60, 60, 61>>,
      <<95, 95, 105, 108, 115, 104, 105, 102, 116, 95, 95>>>>, \* operator<<= : __ilshift__
    <<<<111, 112, 101, 114, 97, 116, 111, 114, 42, 61>>,
      <<95, 95, 105, 109, 117, 108, 95, 95>>>>, \* operator*= : __imul__
    <<<<111, 112, 101, 114, 97, 116, 111, 114, 124, 61>>,
      <<95, 95, 105, 111, 114, 95, 95>>>>, \* operator|= : __ior__
    <<<<111, 112, 101, 114, 97, 116, 111, 114, 37, 61>>,
      <<95, 95, 105, 109, 111, 100, 95, 95>>>>, \* operator%= : __imod__
    <<<<111, 112, 101, 114, 97, 116, 111, 114, 126>>,
      <<95, 95, 105, 110, 118, 101, 114, 116, 95, 95>>>>, \* operator~ : __invert__
    <<<<111, 112, 101, 114, 97, 116, 111, 114, 94, 61>>,
      <<95, 95, 105, 120, 111, 114, 95, 95>>>>, \* operator^= : __ixor__
    <<<<111, 112, 101, 114, 97, 116, 111, 114, 45, 61>>,
      <<95, 95, 105, 115, 117, 98, 95, 95>>>>, \* operator-= : __isub__
    <<<<111, 112, 101, 114, 97, 116, 111, 114, 47, 61>>,
      <<95, 95, 105, 116, 114, 117, 101, 100, 105, 118, 95, 95>>>>, \* operator/= : __itruediv__
    <<<<111, 112, 101, 114, 97, 116, 111, 114, 62, 62, 61>>,
      <<95, 95, 105, 114, 115, 104, 105, 102, 116, 95, 95>>>>, \* operator>>= : __irshift__
    <<<<111, 112, 101, 114, 97, 116, 111, 114, 60, 61>>,
      <<95, 95, 108, 101, 95, 95>>>>, \* operator<= : __le__
    <<<<111, 112, 101, 114, 97, 116, 111, 114, 60, 60>>,
      <<95, 95, 108, 115, 104, 105, 102, 116, 95, 95>>>>, \* operator<< : __lshift__
    <<<<111, 112, 101, 114, 97, 116, 111, 114, 60>>,
      <<95, 95, 108, 116, 95, 95>>>>, \* operator< : __lt__
    <<<<111, 112, 101, 114, 97, 116, 111, 114, 37>>,
      <<95, 95, 109, 111, 100, 95, 95>>>>, \* operator% : __mod__
    <<<<111, 112, 101, 114, 97, 116, 111, 114, 42>>,
      <<95, 95, 109, 117, 108, 95, 95>>>>, \* operator* : __mul__
    <<<<111, 112, 101, 114, 97, 116, 111, 114, 33, 61>>,
      <<95, 95, 110, 101, 95, 95>>>>, \* operator!= : __ne__
    <<<<111, 112, 101, 114, 97, 116, 111, 114, 124>>,
      <<95, 95, 111, 114, 95, 95>>>>, \* operator| : __or__
    <<<<111, 112, 101, 114, 97, 116, 111, 114, 62, 62>>,
      <<95, 95, 114, 115, 104, 105, 102, 116, 95, 95>>>>, \* operator>> : __rshift__
    <<<<111, 112, 101, 114, 97, 116, 111, 114, 45>>,
      <<95, 95, 115, 117, 98, 95, 95>>>>, \* operator- : __sub__
    <<<<111, 112, 101, 114, 97, 116, 111, 114, 47>>,
      <<95, 95, 116, 114, 117, 101, 100, 105, 118, 95, 95>>>>, \* operator/ : __truediv__
    <<<<111, 112, 101, 114, 97, 116, 111, 114, 94>>,
      <<95, 95, 120, 111, 114, 95, 95>>>> \* operator^ : __xor__
    }

\* names used by ctypes.Structure
ctypes_reserved == {
    <<95, 97, 108, 105, 103, 110, 109, 101, 110, 116, 95>>, \* _alignment_
    <<95, 97, 110, 111, 110, 121, 109, 111, 117, 115, 95>>, \* _anonymous_
    <<95, 97, 114, 103, 116, 121, 112, 101, 115, 95>>, \* _argtypes_
    <<95, 97, 114, 114, 97, 121, 95>>, \* _array_
    <<95, 97, 115, 95, 112, 97, 114, 97, 109, 101, 116, 101, 114, 95>>, \* _as_parameter_
    <<95, 98, 97, 115, 101, 115, 95>>, \* _bases_
    <<95, 98, 117, 102, 102, 101, 114, 95>>, \* _buffer_
    <<95, 99, 104, 101, 99, 107, 101, 114, 95>>, \* _checker_
    <<95, 99, 108, 97, 115, 115, 95>>, \* _class_
    <<95, 102, 105, 101, 108, 100, 115, 95>>, \* _fields_
    <<95, 102, 114, 111, 109, 95, 112, 97, 114, 97, 109, 95>>, \* _from_param_
    <<95, 102, 117, 110, 99, 95, 112, 116, 114, 95>>, \* _func_ptr_
    <<95, 104, 97, 110, 100, 108, 101, 95>>, \* _handle_
    <<95, 108, 101, 110, 103, 116, 104, 95>>, \* _length_
    <<95, 110, 97, 109, 101, 95>>, \* _name_
    <<95, 111, 98, 106, 101, 99, 116, 115, 95>>, \* _objects_
    <<95, 111, 102, 102, 115, 101, 116, 95>>, \* _offset_
    <<95, 112, 97, 99, 107, 95>>, \* _pack_
    <<95, 112, 111, 105, 110, 116, 101, 114, 95>>, \* _pointer_
    <<95, 114, 101, 115, 116, 121, 112, 101, 95>>, \* _restype_
    <<95, 115, 105, 122, 101, 95>>, \* _size_
    <<95, 115, 117, 98, 99, 108, 97, 115, 115, 101, 115, 95>>, \* _subclasses_
    <<95, 116, 121, 112, 101, 95>>, \* _type_
    <<95, 118, 97, 108, 117, 101, 115, 95>> \* _values_
    }

\* keyword.kwlist and keyword.softkwlist of the Python that runs the generator
python_keywords == {
    <<70, 97, 108, 115, 101>>,
    <<78, 111, 110, 101>>,
    <<84, 114, 117, 101>>,
    <<97, 110, 100>>,
    <<97, 115>>,
    <<97, 115, 115, 101, 114, 116>>,
    <<97, 115, 121, 110, 99>>,
    <<97, 119, 97, 105, 116>>,
    <<98, 114, 101, 97, 107>>,
    <<99, 108, 97, 115, 115>>,
    <<99, 111, 110, 116, 105, 110, 117, 101>>,
    <<100, 101, 102>>,
    <<100, 101, 108>>,
    <<101, 108, 105, 102>>,
    <<101, 108, 115, 101>>,
    <<101, 120, 99, 101, 112, 116>>,
    <<102, 105, 110, 97, 108, 108, 121>>,
    <<102, 111, 114>>,
    <<102, 114, 111, 109>>,
    <<103, 108, 111, 98, 97, 108>>,
    <<105, 102>>,
    <<105, 109, 112, 111, 114, 116>>,
    <<105, 110>>,
    <<105, 115>>,
    <<108, 97, 109, 98, 100, 97>>,
    <<110, 111, 110, 108, 111, 99, 97, 108>>,
    <<110, 111, 116>>,
    <<111, 114>>,
    <<112, 97, 115, 115>>,
    <<114, 97, 105, 115, 101>>,
    <<114, 101, 116, 117, 114, 110>>,
    <<116, 114, 121>>,
    <<119, 104, 105, 108, 101>>,
    <<119, 105, 116, 104>>,
    <<121, 105, 101, 108, 100>>,
    <<95>>,
    <<99, 97, 115, 101>>,
    <<109, 97, 116, 99, 104>>,
    <<116, 121, 112, 101>>
    }

\* Python's hash() of a str: a keyed hash, the key drawn once per process.
\* The width is 8 bits here instead of 64.
StrHash(usr, seed) == ((usr * 29 + seed * 113 + usr * seed * 7) % 256) - 128

\* hex digits of n >= 0, most significant first
RECURSIVE HexDigits(_)
HexDigits(n) ==
    LET d == n % 16
        ch == IF d < 10 THEN 48 + d ELSE 87 + d
    IN IF n < 16 THEN <<ch>> ELSE HexDigits(n \div 16) \o <<ch>>

\* str(hex(h))[3:] : '0x..' loses its first digit, '-0x..' keeps them all
HexTail(h) ==
    IF h >= 0 THEN Tail(HexDigits(h)) ELSE HexDigits(0 - h)

\* get_name
get_name(c) ==
    IF ~ast[c].anonymous THEN ast[c].spelling
    ELSE <<95, 73, 68>> \o HexTail(StrHash(ast[c].usr, hash_seed))

IsIdentifierChar(ch) ==
    (ch >= 65 /\ ch <= 90) \/ (ch >= 97 /\ ch <= 122) \/ ch = 95

\* get_dunder_name: may raise for an operator without a Python counterpart
OperatorDunder(dunder, no_args) ==
    IF no_args /\ dunder = <<95, 95, 97, 100, 100, 95, 95>>
    THEN Ok(<<95, 95, 112, 111, 115, 95, 95>>)
    ELSE IF no_args /\ dunder = <<95, 95, 115, 117, 98, 95, 95>>
    THEN Ok(<<95, 95, 110, 101, 103, 95, 95>>)
    ELSE Ok(dunder)

DunderName(c, name) ==
    IF ast[c].kind = "CONSTRUCTOR"
    THEN Ok(<<95, 95, 105, 110, 105, 116, 95, 95>>)
    ELSE IF ast[c].kind = "DESTRUCTOR"
    THEN Ok(<<95, 95, 100, 101, 108, 95, 95>>)
    ELSE IF ast[c].kind = "CXX_METHOD"
            /\ StartsWith(name, <<111, 112, 101, 114, 97, 116, 111, 114>>)
            /\ Len(name) > 8 /\ ~IsIdentifierChar(name[9])
    THEN IF \E e \in operator_name_map : e[1] = name
         THEN OperatorDunder((CHOOSE e \in operator_name_map : e[1] = name)[2],
                             ast[c].args = <<>>)
         ELSE Raise("unsupported operator")
    ELSE Ok(name)

get_dunder_name(c) == DunderName(c, get_name(c))

\* get_internal_name: the mangled name, a C name as _C0name
get_internal_name(c) ==
    IF ~ast[c].extern_c THEN <<95, 90>> \o ast[c].spelling \o HexDigits(ast[c].usr)
    ELSE <<95, 67, 48>> \o ast[c].spelling

\* is_staticmethod
is_staticmethod(c) ==
    ast[c].kind = "FUNCTION_DECL"
    \/ (ast[c].kind = "CXX_METHOD" /\ ast[c].static)

\* calculate_namespace: the names of the enclosing scopes, outermost first
RECURSIVE NamespaceWalk(_, _)
NamespaceWalk(current, namespaces) ==
    IF current = 0 THEN Reverse(namespaces)
    ELSE IF ast[current].kind = "LINKAGE_SPEC" THEN <<>>
    ELSE NamespaceWalk(ast[current].parent,
            IF ~ast[current].anonymous
            THEN Append(namespaces, ast[current].spelling)
            ELSE namespaces)

calculate_namespace(c) == NamespaceWalk(ast[c].parent, <<>>)

\* calculate_python_package_path
calculate_python_package_path(c) ==
    Bind(get_dunder_name(c),
         LAMBDA name : Ok(Join(Append(calculate_namespace(c), name))))

\* get_inheritance_generation
RECURSIVE get_inheritance_generation(_)
get_inheritance_generation(c) ==
    IF c # 0 /\ ast[c].kind \in RecordKinds
    THEN IF ast[c].bases # <<>>
         THEN get_inheritance_generation(ast[c].bases[1]) + 1
         ELSE 1
    ELSE 0

\* get_base_class with the count of the base specifiers left out
get_base_class_of_first(c) ==
    IF ast[c].bases # <<>>
    THEN calculate_python_package_path(ast[c].bases[1])
    ELSE Ok(<<95, 67, 116, 121, 112, 101, 115, 46, 83, 116, 114, 117, 99, 116, 117, 114, 101>>)

\* get_base_class
get_base_class(c) ==
    IF Len(ast[c].bases) > 1 THEN Raise("Multiple inheritance unsupported")
    ELSE IF ast[c].bases # <<>>
    THEN calculate_python_package_path(ast[c].bases[1])
    ELSE Ok(<<95, 67, 116, 121, 112, 101, 115, 46, 83, 116, 114, 117, 99, 116, 117, 114, 101>>)

\* The member functions among the children of a class
MemberFunctions(c) ==
    {d \in Cursors : ast[d].parent = c /\ ast[d].tu = ast[c].tu
                     /\ ast[d].kind \in {"CONSTRUCTOR", "DESTRUCTOR", "CXX_METHOD"}}

\* has_vtable
RECURSIVE has_vtable(_)
has_vtable(c) ==
    LET has_virtual == \E m \in MemberFunctions(c) : ast[m].virtual
    IN IF has_virtual /\ \E i \in 1..Len(ast[c].bases) : has_vtable(ast[c].bases[i])
       THEN FALSE
       ELSE has_virtual

----------------------------------------------------------------------------
(* The type mapper.  A Python type string is a sequence of tokens; the     *)
(* token of a qualified path carries the path.                             *)

Tok(t) == [t |-> t, p |-> <<>>, n |-> 0]
PathTok(p) == [t |-> "path", p |-> p, n |-> 0]
TimesTok(n) == [t |-> "*", p |-> <<>>, n |-> n]

\* the keys of _clang_to_ctypes (and of _clang_to_python)
FundamentalKinds ==
    {"BOOL", "CHAR_S", "CHAR_U", "DOUBLE", "FLOAT", "INT", "LONG",
     "LONGDOUBLE", "LONGLONG", "SCHAR", "SHORT", "UCHAR", "UINT", "ULONG",
     "ULONGLONG", "USHORT", "VOID", "WCHAR"}

\* _clang_to_ctypes
clang_to_ctypes(k) ==
    CASE k = "BOOL" -> "_Ctypes.c_bool"
      [] k = "CHAR_S" -> "_Ctypes.c_char"
      [] k = "CHAR_U" -> "_Ctypes.c_ubyte"
      [] k = "DOUBLE" -> "_Ctypes.c_double"
      [] k = "FLOAT" -> "_Ctypes.c_float"
      [] k = "INT" -> "_Ctypes.c_int"
      [] k = "LONG" -> "_Ctypes.c_long"
      [] k = "LONGDOUBLE" -> "_Ctypes.c_longdouble"
      [] k = "LONGLONG" -> "_Ctypes.c_longlong"
      [] k = "SCHAR" -> "_Ctypes.c_byte"
      [] k = "SHORT" -> "_Ctypes.c_short"
      [] k = "UCHAR" -> "_Ctypes.c_ubyte"
      [] k = "UINT" -> "_Ctypes.c_uint"
      [] k = "ULONG" -> "_Ctypes.c_ulong"
      [] k = "ULONGLONG" -> "_Ctypes.c_ulonglong"
      [] k = "USHORT" -> "_Ctypes.c_ushort"
      [] k = "VOID" -> "None"
      [] k = "WCHAR" -> "_Ctypes.c_wchar"

\* the keys of _clang_to_ctypes_ptr and of _clang_to_ctypes_ptr_return
PtrSpecialKinds == {"VOID", "CHAR_S", "WCHAR"}

\* _clang_to_ctypes_ptr
clang_to_ctypes_ptr(k) ==
    CASE k = "VOID" -> "_Ctypes.c_void_p"
      [] k = "CHAR_S" -> "_Ctypes.c_char_p"
      [] k = "WCHAR" -> "_Ctypes.c_wchar_p"

\* _clang_to_ctypes_ptr_return
clang_to_ctypes_ptr_return(k) ==
    CASE k = "VOID" -> "int"
      [] k = "CHAR_S" -> "bytes"
      [] k = "WCHAR" -> "str"

\* _clang_to_python
clang_to_python(k) ==
    CASE k \in {"DOUBLE", "FLOAT", "LONGDOUBLE"} -> "float"
      [] k = "BOOL" -> "bool"
      [] k = "VOID" -> "None"
      [] OTHER -> "int"

\* class type_string_kind
type_string_kinds == {"arg_hint", "return_hint", "ctypes_args", "ctypes_struct"}

SymbolKeys(syms) == {syms[i].key : i \in 1..Len(syms)}

\* calculate_type_string, from the lookup of the definition on: the type
\* is neither fundamental nor an array nor a pointer to a fundamental
TypeStringOfDefinition(canonical, is_pointer, syms, result_kind) ==
    LET definition_cursor == get_declaration(canonical)
    IN IF definition_cursor = 0 \/ ~ast[definition_cursor].is_definition
       THEN Raise("Incomplete type")
       ELSE IF ast[definition_cursor].kind \notin {"ENUM_DECL", "STRUCT_DECL", "CLASS_DECL"}
       THEN Raise("Unsupported definition kind")
       ELSE Bind(calculate_python_package_path(definition_cursor), LAMBDA py_name :
               IF py_name \notin SymbolKeys(syms)
               THEN Raise("Missing definition")
               ELSE IF ast[definition_cursor].kind = "ENUM_DECL"
               THEN IF is_pointer
                    THEN Raise("Cannot pass enums by pointer or reference")
                    ELSE IF result_kind \in {"ctypes_args", "ctypes_struct"}
                    THEN IF TypeKind(ast[definition_cursor].enum_type) \in FundamentalKinds
                         THEN Ok(<<Tok(clang_to_ctypes(
                                    TypeKind(ast[definition_cursor].enum_type)))>>)
                         ELSE Raise("KeyError")
                    ELSE Ok(<<Tok("int")>>)
               ELSE IF is_pointer /\ result_kind = "ctypes_args"
               THEN Ok(<<Tok("_Ctypes.POINTER("), PathTok(py_name), Tok(")")>>)
               ELSE IF is_pointer /\ result_kind = "ctypes_struct"
               THEN Ok(<<Tok("_Ctypes.c_void_p")>>)
               ELSE Ok(<<PathTok(py_name)>>))

\* TypeStringOfPointer without the test of the pointee for a second pointer
TypeStringOfPointerUnchecked(canonical, syms, result_kind) ==
    LET pointee == get_canonical(get_pointee(canonical))
        pk == TypeKind(pointee)
    IN IF pk \in FundamentalKinds
       THEN IF result_kind = "arg_hint"
            THEN IF TypeKind(canonical) = "POINTER"
                 THEN Ok(<<Tok("_Any")>>)
                 ELSE Ok(<<Tok(clang_to_ctypes(pk))>>)
            ELSE IF result_kind = "return_hint"
            THEN IF pk \in PtrSpecialKinds
                 THEN IF TypeKind(canonical) \in ReferenceKinds
                      THEN Raise("Return char and wchar_t by reference unsupported")
                      ELSE Ok(<<Tok(clang_to_ctypes_ptr_return(pk))>>)
                 ELSE Ok(<<Tok("_Any")>>)
            ELSE IF pk \in PtrSpecialKinds
            THEN Ok(<<Tok(clang_to_ctypes_ptr(pk))>>)
            ELSE Ok(<<Tok("_Ctypes.POINTER("), Tok(clang_to_ctypes(pk)), Tok(")")>>)
       ELSE TypeStringOfDefinition(pointee, TRUE, syms, result_kind)

\* calculate_type_string for a canonical pointer or reference type
TypeStringOfPointer(canonical, syms, result_kind) ==
    LET pointee == get_canonical(get_pointee(canonical))
        pk == TypeKind(pointee)
    IN IF pk \in PointerKinds
       THEN Raise("Only one pointer or reference allowed in an API type")
       ELSE IF pk \in FundamentalKinds
       THEN IF result_kind = "arg_hint"
            THEN IF TypeKind(canonical) = "POINTER"
                 THEN Ok(<<Tok("_Any")>>)
                 ELSE Ok(<<Tok(clang_to_ctypes(pk))>>)
            ELSE IF result_kind = "return_hint"
            THEN IF pk \in PtrSpecialKinds
                 THEN IF TypeKind(canonical) \in ReferenceKinds
                      THEN Raise("Return char and wchar_t by reference unsupported")
                      ELSE Ok(<<Tok(clang_to_ctypes_ptr_return(pk))>>)
                 ELSE Ok(<<Tok("_Any")>>)
            ELSE IF pk \in PtrSpecialKinds
            THEN Ok(<<Tok(clang_to_ctypes_ptr(pk))>>)
            ELSE Ok(<<Tok("_Ctypes.POINTER("), Tok(clang_to_ctypes(pk)), Tok(")")>>)
       ELSE TypeStringOfDefinition(pointee, TRUE, syms, result_kind)

\* calculate_type_string(cursor, cpp_type_ref, symbols, result_kind); the
\* cursor only locates the error message
RECURSIVE calculate_type_string(_, _, _)
calculate_type_string(cpp_type_ref, syms, result_kind) ==
    LET canonical == get_canonical(cpp_type_ref)
        k == TypeKind(canonical)
    IN IF k \in FundamentalKinds
       THEN IF result_kind \in {"ctypes_args", "ctypes_struct"}
            THEN Ok(<<Tok(clang_to_ctypes(k))>>)
            ELSE IF result_kind = "arg_hint" /\ k = "WCHAR"
            THEN Ok(<<Tok("str")>>)
            ELSE Ok(<<Tok(clang_to_python(k))>>)
       ELSE IF k = "CONSTANTARRAY"
       THEN IF result_kind # "ctypes_struct"
            THEN Raise("Constant arrays supported in class and struct layouts only")
            ELSE Bind(calculate_type_string(get_pointee(canonical), syms, result_kind),
                      LAMBDA element : Ok(Append(element, TimesTok(canonical[1].n))))
       ELSE IF k \in PointerKinds
       THEN TypeStringOfPointer(canonical, syms, result_kind)
       ELSE TypeStringOfDefinition(canonical, FALSE, syms, result_kind)

----------------------------------------------------------------------------
(* Emitted lines.  A line of a section is a record: op names the line's    *)
(* shape, depth its indentation, the other fields its variable parts.      *)

Line(op, depth) ==
    [op |-> op, depth |-> depth, name |-> <<>>, cursor |-> 0, n |-> 0,
     self |-> FALSE, args |-> <<>>, ty |-> <<>>]

\* _Args[i] of an overload, or the parameter's own name (_Arg<i> if unnamed)
ArgName(arg, arg_index, overloaded) ==
    IF overloaded THEN <<95, 65, 114, 103, 115, 91>> \o HexDigits(arg_index) \o <<93>>
    ELSE IF arg.name # <<>> THEN arg.name
    ELSE <<95, 65, 114, 103>> \o HexDigits(arg_index)

\* emit_ctypes_function_args: one call argument per parameter, each plain,
\* wrapped in _Pointer_shim or passed by _Ctypes.byref
\* one call argument
CtypesFunctionArg(arg, arg_name, syms) ==
    IF TypeKind(arg.type) = "POINTER"
    THEN Bind(calculate_type_string(get_pointee(arg.type), syms, "ctypes_args"),
              LAMBDA pointee_c_type :
                 IF pointee_c_type # <<Tok("None")>>
                 THEN Ok([shim |-> "_Pointer_shim", name |-> arg_name,
                          ty |-> pointee_c_type])
                 ELSE Ok([shim |-> "", name |-> arg_name, ty |-> <<>>]))
    ELSE IF TypeKind(arg.type) \in ReferenceKinds
    THEN Ok([shim |-> "_Ctypes.byref", name |-> arg_name, ty |-> <<>>])
    ELSE Ok([shim |-> "", name |-> arg_name, ty |-> <<>>])

RECURSIVE CtypesFunctionArgs(_, _, _, _)
CtypesFunctionArgs(args, arg_index, syms, overloaded) ==
    IF arg_index >= Len(args) THEN Ok(<<>>)
    ELSE Bind(CtypesFunctionArg(args[arg_index + 1],
                  ArgName(args[arg_index + 1], arg_index, overloaded), syms),
              LAMBDA this :
         Bind(CtypesFunctionArgs(args, arg_index + 1, syms, overloaded),
              LAMBDA rest : Ok(<<this>> \o rest)))

emit_ctypes_function_args(c, syms, overloaded) ==
    CtypesFunctionArgs(ast[c].args, 0, syms, overloaded)

\* emit_python_api_overload_arg0_isinstance: the isinstance test on the
\* first argument of an overload
emit_python_api_overload_arg0_isinstance(c, syms, overloaded) ==
    LET arg == ast[c].args[1]
    IN Bind(IF TypeKind(arg.type) \in PointerKinds
            THEN calculate_type_string(get_pointee(arg.type), syms, "ctypes_args")
            ELSE calculate_type_string(arg.type, syms, "ctypes_args"),
            LAMBDA c_type :
               Ok([Line("if isinstance", 0) EXCEPT
                      !.name = ArgName(arg, 0, overloaded), !.ty = c_type]))

\* the type hints of the parameters of emit_python_api_function
RECURSIVE ArgHints(_, _, _)
ArgHints(args, arg_index, syms) ==
    IF arg_index >= Len(args) THEN Ok(<<>>)
    ELSE Bind(calculate_type_string(args[arg_index + 1].type, syms, "arg_hint"),
              LAMBDA py_type :
         Bind(ArgHints(args, arg_index + 1, syms),
              LAMBDA rest :
                 Ok(<<[shim |-> "hint",
                       name |-> ArgName(args[arg_index + 1], arg_index, FALSE),
                       ty |-> py_type]>> \o rest)))

\* emit_python_api_function without the test of line 588: a pure virtual
\* method is bound like any other
emit_python_api_function_of_pure(depth, c, syms, overloaded) ==
    LET static_method == is_staticmethod(c)
        decorators ==
            (IF static_method THEN <<Line("@_Staticmethod", depth)>> ELSE <<>>)
            \o (IF overloaded THEN <<Line("@_Overload", depth)>> ELSE <<>>)
    IN Bind(get_dunder_name(c), LAMBDA function_name :
       Bind(ArgHints(ast[c].args, 0, syms), LAMBDA arg_types :
       Bind(calculate_type_string(ast[c].result, syms, "return_hint"),
            LAMBDA return_py_type :
       Bind(IF overloaded THEN Ok(<<>>)
            ELSE emit_ctypes_function_args(c, syms, overloaded),
            LAMBDA arg_str :
          Ok(decorators
             \o <<[Line("def", depth) EXCEPT
                      !.name = function_name, !.cursor = c,
                      !.self = ~static_method, !.args = arg_types,
                      !.ty = return_py_type],
                  [Line("doc", depth + 1) EXCEPT !.cursor = c]>>
             \o (IF overloaded THEN <<Line("...", depth + 1)>>
                 ELSE <<[Line("return", depth + 1) EXCEPT
                            !.name = get_internal_name(c), !.cursor = c,
                            !.self = ~static_method, !.args = arg_str]>>))))))

\* emit_python_api_function
emit_python_api_function(depth, c, syms, overloaded) ==
    LET static_method == is_staticmethod(c)
        decorators ==
            (IF static_method THEN <<Line("@_Staticmethod", depth)>> ELSE <<>>)
            \o (IF overloaded THEN <<Line("@_Overload", depth)>> ELSE <<>>)
    IN IF ast[c].pure THEN Ok(<<>>)
       ELSE Bind(get_dunder_name(c), LAMBDA function_name :
            Bind(ArgHints(ast[c].args, 0, syms), LAMBDA arg_types :
            Bind(calculate_type_string(ast[c].result, syms, "return_hint"),
                 LAMBDA return_py_type :
            Bind(IF overloaded THEN Ok(<<>>)
                 ELSE emit_ctypes_function_args(c, syms, overloaded),
                 LAMBDA arg_str :
               Ok(decorators
                  \o <<[Line("def", depth) EXCEPT
                           !.name = function_name, !.cursor = c,
                           !.self = ~static_method, !.args = arg_types,
                           !.ty = return_py_type],
                       [Line("doc", depth + 1) EXCEPT !.cursor = c]>>
                  \o (IF overloaded THEN <<Line("...", depth + 1)>>
                      ELSE <<[Line("return", depth + 1) EXCEPT
                                 !.name = get_internal_name(c), !.cursor = c,
                                 !.self = ~static_method, !.args = arg_str]>>))))))

\* The inheritance generation of the class of an overload's first parameter
Arg0Generation(c) ==
    IF ast[c].args = <<>> THEN 0
    ELSE LET arg0_type == get_canonical(ast[c].args[1].type)
             target == IF TypeKind(arg0_type) \in PointerKinds
                       THEN get_canonical(get_pointee(arg0_type))
                       ELSE arg0_type
         IN get_inheritance_generation(get_declaration(target))

\* the cursors of an overload group by descending generation, each
\* generation in list order: sorted(inheritance_generation_map.items(),
\* reverse=True) followed by the inner loop
RECURSIVE ByGeneration(_, _)
ByGeneration(overload_group, generations) ==
    IF generations = <<>> THEN <<>>
    ELSE SelectSeq(overload_group, LAMBDA c : Arg0Generation(c) = Head(generations))
         \o ByGeneration(overload_group, Tail(generations))

\* the groups by ascending generation: sorted() without reverse=True
GenerationOrderAscending(overload_group) ==
    ByGeneration(overload_group,
        SortedInts({0} \cup {Arg0Generation(overload_group[i]) :
                                i \in 1..Len(overload_group)}))

GenerationOrder(overload_group) ==
    ByGeneration(overload_group,
        Reverse(SortedInts({0} \cup {Arg0Generation(overload_group[i]) :
                                      i \in 1..Len(overload_group)})))

\* the branches of one case of the selector, one per cursor of the group:
\* the first counter - 1 are guarded by isinstance, the last is not
RECURSIVE SelectorBranches(_, _, _, _, _, _)
SelectorBranches(depth, ordered, counter, syms, self_arg, position) ==
    IF position > Len(ordered) THEN Ok(<<>>)
    ELSE LET c == ordered[position]
             guarded == counter > 1
         IN Bind(emit_ctypes_function_args(c, syms, TRUE), LAMBDA arg_str :
               IF guarded /\ Arg0Generation(c) <= 0
               THEN Raise("AssertionError: isinstance checks are only for classes and structs")
               ELSE
            Bind(IF guarded THEN emit_python_api_overload_arg0_isinstance(c, syms, TRUE)
                 ELSE Ok(Line("", 0)),
                 LAMBDA arg0_selector :
            Bind(SelectorBranches(depth, ordered,
                     IF guarded THEN counter - 1 ELSE counter,
                     syms, self_arg, position + 1),
                 LAMBDA rest :
               Ok((IF guarded
                   THEN <<[arg0_selector EXCEPT !.depth = depth + 3]>>
                   ELSE <<>>)
                  \o <<[Line("return", depth + (IF guarded THEN 4 ELSE 3)) EXCEPT
                           !.name = get_internal_name(c), !.cursor = c,
                           !.self = self_arg, !.args = arg_str]>>
                  \o rest))))

\* the loop over sorted(arg_count_map.items())
\* a case line that names one argument more than the bucket holds
SelectorCaseLineShifted(depth, arg_count) ==
    [Line("case", depth + 2) EXCEPT !.n = arg_count + 1]

\* the line 'case <arg_count>:'
SelectorCaseLine(depth, arg_count) ==
    [Line("case", depth + 2) EXCEPT !.n = arg_count]

RECURSIVE SelectorCases(_, _, _, _, _)
SelectorCases(depth, candidates, arg_counts, syms, self_arg) ==
    IF arg_counts = <<>> THEN Ok(<<>>)
    ELSE LET arg_count == Head(arg_counts)
             overload_group ==
                 SelectSeq(candidates, LAMBDA c : Len(ast[c].args) = arg_count)
             generation0 ==
                 SelectSeq(overload_group, LAMBDA c : Arg0Generation(c) = 0)
         IN IF Len(generation0) > 1
            THEN Raise("Unable to disambiguate overloaded functions")
            ELSE Bind(SelectorBranches(depth, GenerationOrder(overload_group),
                          Len(overload_group), syms, self_arg, 1),
                      LAMBDA branches :
                 Bind(SelectorCases(depth, candidates, Tail(arg_counts), syms, self_arg),
                      LAMBDA rest :
                         Ok(<<SelectorCaseLine(depth, arg_count)>> \o branches \o rest)))

\* emit_python_api_overload_selector
emit_python_api_overload_selector(depth, overloads, syms) ==
    LET static_method == \E i \in 1..Len(overloads) : is_staticmethod(overloads[i])
        candidates == SelectSeq(overloads, LAMBDA c : ~ast[c].pure)
        arg_counts == SortedInts({Len(ast[candidates[i]].args) : i \in 1..Len(candidates)})
    IN Bind(get_dunder_name(overloads[1]), LAMBDA function_name :
       Bind(SelectorCases(depth, candidates, arg_counts, syms, ~static_method),
            LAMBDA cases :
          Ok((IF static_method THEN <<Line("@_Staticmethod", depth)>> ELSE <<>>)
             \o <<[Line("def *_Args", depth) EXCEPT
                      !.name = function_name, !.self = ~static_method],
                  Line("assert not _Kwargs", depth + 1),
                  Line("match _Len(_Args)", depth + 1)>>
             \o cases
             \o <<Line("case _", depth + 2),
                  Line("assert False, Arg count", depth + 3),
                  Line("...", depth + 3)>>)))

----------------------------------------------------------------------------
(* The symbol table: a Python dict, here the sequence of its items in      *)
(* insertion order, each item a key and its list of cursors.               *)

Lookup(syms, key) == CHOOSE i \in 1..Len(syms) : syms[i].key = key

IsUpper(ch) == ch >= 65 /\ ch <= 90

\* the three reserved-name tests of symbols_add
ReservedName(spelling) ==
    IF Len(spelling) > 1 /\ spelling[1] = 95 /\ IsUpper(spelling[2])
    THEN "1 leading underscore followed by a capital letter reserved"
    ELSE IF spelling \in python_keywords THEN "is a keyword in Python"
    ELSE IF spelling \in ctypes_reserved THEN "is reserved by ctypes.Structure"
    ELSE ""

\* symbols_add with the cursors of a list compared by identity
symbols_add_by_cursor(c, syms) ==
    IF ~ast[c].anonymous /\ ReservedName(ast[c].spelling) # ""
    THEN Raise(ReservedName(ast[c].spelling))
    ELSE Bind(calculate_python_package_path(c), LAMBDA sym :
            IF sym \notin SymbolKeys(syms)
            THEN Ok(Append(syms, [key |-> sym, list |-> <<c>>]))
            ELSE IF ~\E j \in 1..Len(syms[Lookup(syms, sym)].list) :
                      syms[Lookup(syms, sym)].list[j] = c
            THEN Ok([syms EXCEPT ![Lookup(syms, sym)].list = Append(@, c)])
            ELSE Ok(syms))

\* symbols_add
symbols_add(c, syms) ==
    IF ~ast[c].anonymous /\ ReservedName(ast[c].spelling) # ""
    THEN Raise(ReservedName(ast[c].spelling))
    ELSE Bind(calculate_python_package_path(c), LAMBDA sym :
            IF sym \notin SymbolKeys(syms)
            THEN Ok(Append(syms, [key |-> sym, list |-> <<c>>]))
            ELSE IF ~\E j \in 1..Len(syms[Lookup(syms, sym)].list) :
                      ast[syms[Lookup(syms, sym)].list[j]].usr = ast[c].usr
            THEN Ok([syms EXCEPT ![Lookup(syms, sym)].list = Append(@, c)])
            ELSE Ok(syms))

\* symbols_sort: the lists in ascending order of their sort key
symbols_sort(syms) ==
    LET sort_key(i) == Join(Append(calculate_namespace(syms[i].list[1]),
                                   get_dunder_name(syms[i].list[1]).val))
        keys == {sort_key(i) : i \in 1..Len(syms)}
        sorted == SortedStrs(keys)
    IN IF Cardinality(keys) # Len(syms)
       THEN Raise("AssertionError: sort key seen twice")
       ELSE Ok([k \in 1..Len(sorted) |->
                  syms[CHOOSE i \in 1..Len(syms) : sort_key(i) = sorted[k]].list])

\* is_annotated_entanglement taking every cursor for an annotated one
is_annotated_always(c) == TRUE

\* is_annotated_entanglement: an ANNOTATE_ATTR child spelled 'entanglement'
is_annotated_entanglement(c) == ast[c].annotated

\* symbols_gather_required and its loop over the children
RECURSIVE symbols_gather_required(_, _, _), GatherChildren(_, _, _)
symbols_gather_required(c, tu, syms) ==
    IF c = 0 \/ ast[c].kind \in {"NAMESPACE", "LINKAGE_SPEC"}
    THEN GatherChildren(get_children(c, tu), tu, syms)
    ELSE IF ~is_annotated_entanglement(c) THEN Ok(syms)
    ELSE IF ast[c].kind \in {"CLASS_TEMPLATE", "FUNCTION_TEMPLATE",
                             "CLASS_TEMPLATE_PARTIAL_SPECIALIZATION"}
    THEN Raise("Templates are not supported")
    ELSE IF ast[c].kind = "ENUM_DECL"
    THEN IF ast[c].is_definition /\ ast[c].access \in {"PUBLIC", "INVALID"}
         THEN symbols_add(c, syms)
         ELSE Raise("Enum is incomplete or private")
    ELSE IF ast[c].kind = "FUNCTION_DECL"
    THEN IF ast[c].linkage = "EXTERNAL" /\ ~ast[c].variadic /\ ~ast[c].va_list
         THEN symbols_add(c, syms)
         ELSE Raise("Functions must be extern and not variadic")
    ELSE IF ast[c].kind \in RecordKinds
    THEN IF ast[c].is_definition /\ ~ast[c].anonymous
            /\ ast[c].access \in {"PUBLIC", "INVALID"}
         THEN Bind(symbols_add(c, syms),
                   LAMBDA added : GatherChildren(get_children(c, tu), tu, added))
         ELSE Raise("Structs and classes must be complete, not be anonymous and be public")
    ELSE IF ast[c].kind \in {"CONSTRUCTOR", "DESTRUCTOR", "CXX_METHOD"}
    THEN IF ast[c].access = "PUBLIC" /\ ast[c].linkage = "EXTERNAL"
            /\ ~ast[c].variadic /\ ~ast[c].va_list
         THEN symbols_add(c, syms)
         ELSE Raise("Methods must be public, extern and not variadic")
    ELSE Raise("Unsupported")

GatherChildren(children, tu, syms) ==
    IF children = <<>> THEN Ok(syms)
    ELSE Bind(symbols_gather_required(Head(children), tu, syms),
              LAMBDA first : GatherChildren(Tail(children), tu, first))

----------------------------------------------------------------------------
(* The API section *)

\* width of the mask emit_python_api_enum applies to the constants of an
\* unsigned enum (0xffffffffffffffff in the source, narrower here)
MaskBits == 8

\* the lines of emit_python_api_enum for the constants
RECURSIVE EnumConstants(_, _, _)
EnumConstants(depth, constants, force_unsigned) ==
    IF constants = <<>> THEN <<>>
    ELSE <<[Line("enum constant", depth) EXCEPT
               !.name = Head(constants).name,
               !.n = IF force_unsigned THEN Head(constants).value % (2 ^ MaskBits)
                     ELSE Head(constants).value]>>
         \o EnumConstants(depth, Tail(constants), force_unsigned)

\* emit_python_api_enum
emit_python_api_enum(depth, c) ==
    LET enum_name == get_name(c)
        underlying_type == get_canonical(ast[c].enum_type)
        force_unsigned == TypeKind(underlying_type) \in {"UINT", "ULONG", "ULONGLONG"}
        constants == ast[c].constants
    IN IF constants = <<>> THEN Raise("Empty enums not allowed in Python")
       ELSE Ok(<<[Line("class IntEnum", depth) EXCEPT !.name = enum_name, !.cursor = c],
                 [Line("doc", depth + 1) EXCEPT !.cursor = c]>>
               \o EnumConstants(depth + 1, constants, force_unsigned)
               \o (IF ast[c].scoped THEN <<>>
                   ELSE [i \in 1..Len(constants) |->
                           [Line("enum alias", depth) EXCEPT
                               !.name = constants[i].name, !.ty = <<PathTok(enum_name)>>]]))

\* emit_python_api_class
emit_python_api_class(depth, c) ==
    <<[Line("class", depth) EXCEPT !.name = get_name(c), !.cursor = c],
      [Line("doc", depth + 1) EXCEPT !.cursor = c]>>

\* the first while loop of emit_python_api with the test of the lengths alone
RECURSIVE KeptDepthByLength(_, _)
KeptDepthByLength(current, cursor_namespace) ==
    IF Len(cursor_namespace) < Len(current)
    THEN KeptDepthByLength(SubSeq(current, 1, Len(current) - 1), cursor_namespace)
    ELSE Len(current)

\* how much of the namespace stack survives the first while loop of
\* emit_python_api: the stack is popped until it is a prefix of the path
RECURSIVE KeptDepth(_, _)
KeptDepth(current, cursor_namespace) ==
    IF Len(cursor_namespace) < Len(current)
       \/ current # SubSeq(cursor_namespace, 1, Len(current))
    THEN KeptDepth(SubSeq(current, 1, Len(current) - 1), cursor_namespace)
    ELSE Len(current)

\* the branch of emit_python_api for a list of functions: the stubs of the
\* overloads of one name
RECURSIVE OverloadStubs(_, _, _)
OverloadStubs(depth, cursor_list, syms) ==
    IF cursor_list = <<>> THEN Ok(<<>>)
    ELSE Bind(emit_python_api_function(depth, Head(cursor_list), syms, TRUE),
              LAMBDA stub :
         Bind(OverloadStubs(depth, Tail(cursor_list), syms),
              LAMBDA rest : Ok(stub \o rest)))

EmitFunctions(depth, cursor_list, syms) ==
    IF Len(cursor_list) > 1
    THEN Bind(OverloadStubs(depth, cursor_list, syms), LAMBDA stubs :
         Bind(emit_python_api_overload_selector(depth, cursor_list, syms),
              LAMBDA selector : Ok(stubs \o selector)))
    ELSE emit_python_api_function(depth, cursor_list[1], syms, FALSE)

\* one iteration of the loop of emit_python_api: the lines it appends and
\* the namespace stack it leaves
ApiIteration(cursor_list, current, syms) ==
    LET cursor0 == cursor_list[1]
        cursor_namespace == calculate_namespace(cursor0)
        kept == KeptDepth(current, cursor_namespace)
        pops == [i \in 1..(Len(current) - kept) |->
                   [Line("...", Len(current) - i + 1) EXCEPT
                       !.name = current[Len(current) - i + 1]]]
        pushes == [i \in 1..(Len(cursor_namespace) - kept) |->
                     [Line("class", kept + i - 1) EXCEPT
                         !.name = cursor_namespace[kept + i]]]
        depth == Len(cursor_namespace)
        kind == ast[cursor0].kind
    IN IF \E i \in 1..Len(cursor_list) : ast[cursor_list[i]].kind # kind
       THEN Raise("AssertionError: cursors of one list differ in kind")
       ELSE Bind(IF kind = "ENUM_DECL"
                 THEN IF Len(cursor_list) # 1
                      THEN Raise("AssertionError: len(cursor_list) == 1")
                      ELSE emit_python_api_enum(depth, cursor0)
                 ELSE IF kind \in FunctionKinds
                 THEN EmitFunctions(depth, cursor_list, syms)
                 ELSE IF kind \in RecordKinds
                 THEN IF Len(cursor_list) # 1
                      THEN Raise("AssertionError: len(cursor_list) == 1")
                      ELSE Ok(emit_python_api_class(depth, cursor0))
                 ELSE Ok(<<>>),
                 LAMBDA entry :
                    Ok([lines |-> pops \o pushes \o entry,
                        stack |-> IF kind \in RecordKinds
                                  THEN Append(cursor_namespace, ast[cursor0].spelling)
                                  ELSE cursor_namespace]))

----------------------------------------------------------------------------
(* The aggregate-layout section *)

\* the field lines of one record
RECURSIVE FieldLines(_, _)
FieldLines(fields, syms) ==
    IF fields = <<>> THEN Ok(<<>>)
    ELSE Bind(calculate_type_string(Head(fields).type, syms, "ctypes_struct"),
              LAMBDA ctypes_type :
         Bind(FieldLines(Tail(fields), syms),
              LAMBDA rest :
                 Ok(<<[Line("field", 2) EXCEPT
                          !.name = Head(fields).name, !.ty = ctypes_type,
                          !.n = Head(fields).bits]>> \o rest)))

\* the lines of one record with the size assertion left out
StructureRecordWithoutSizeof(c, counter, syms) ==
    Bind(calculate_python_package_path(c), LAMBDA path :
    Bind(get_base_class(c), LAMBDA base :
    Bind(FieldLines(ast[c].fields, syms), LAMBDA fields :
       IF ast[c].fields = <<>>
       THEN Raise("Empty class/struct unsupported due to ctypes")
       ELSE Ok(<<[Line("class _T", 0) EXCEPT
                     !.name = path, !.cursor = c, !.n = counter,
                     !.ty = <<PathTok(base)>>],
                 Line("_fields_ = [", 1)>>
               \o (IF has_vtable(c) THEN <<Line("_Vtable", 2)>> ELSE <<>>)
               \o fields
               \o <<[Line("] path=_T", 0) EXCEPT !.name = path, !.n = counter]>>))))

\* the lines of one record with the test of field_count left out
StructureRecordWithoutFieldCount(c, counter, syms) ==
    Bind(calculate_python_package_path(c), LAMBDA path :
    Bind(get_base_class(c), LAMBDA base :
    Bind(FieldLines(ast[c].fields, syms), LAMBDA fields :
       Ok(<<[Line("class _T", 0) EXCEPT
                !.name = path, !.cursor = c, !.n = counter,
                !.ty = <<PathTok(base)>>],
            Line("_fields_ = [", 1)>>
          \o (IF has_vtable(c) THEN <<Line("_Vtable", 2)>> ELSE <<>>)
          \o fields
          \o <<[Line("] path=_T", 0) EXCEPT !.name = path, !.n = counter],
               [Line("assert sizeof", 0) EXCEPT
                   !.name = path, !.n = ast[c].size]>>))))

\* the lines emit_structure_list appends for one class or struct
StructureRecord(c, counter, syms) ==
    Bind(calculate_python_package_path(c), LAMBDA path :
    Bind(get_base_class(c), LAMBDA base :
    Bind(FieldLines(ast[c].fields, syms), LAMBDA fields :
       IF ast[c].fields = <<>>
       THEN Raise("Empty class/struct unsupported due to ctypes")
       ELSE Ok(<<[Line("class _T", 0) EXCEPT
                     !.name = path, !.cursor = c, !.n = counter,
                     !.ty = <<PathTok(base)>>],
                 Line("_fields_ = [", 1)>>
               \o (IF has_vtable(c) THEN <<Line("_Vtable", 2)>> ELSE <<>>)
               \o fields
               \o <<[Line("] path=_T", 0) EXCEPT !.name = path, !.n = counter],
                    [Line("assert sizeof", 0) EXCEPT
                        !.name = path, !.n = ast[c].size]>>))))

\* the class and struct lists in emission order: by inheritance depth, the
\* lists of one depth in sorted order
RECURSIVE ByDepth(_, _)
ByDepth(lists, depths) ==
    IF depths = <<>> THEN <<>>
    ELSE SelectSeq(lists, LAMBDA l : get_inheritance_generation(l[1]) = Head(depths))
         \o ByDepth(lists, Tail(depths))

depth_sorted_symbols(sorted) ==
    LET lists == SelectSeq(sorted, LAMBDA l : ast[l[1]].kind \in RecordKinds)
    IN ByDepth(lists, SortedInts({get_inheritance_generation(lists[i][1]) :
                                   i \in 1..Len(lists)}))

RECURSIVE StructureRecords(_, _, _)
StructureRecords(lists, counter, syms) ==
    IF lists = <<>> THEN Ok(<<>>)
    ELSE Bind(IF Len(Head(lists)) # 1
              THEN Raise("AssertionError: len(cursor_list) == 1")
              ELSE StructureRecord(Head(lists)[1], counter, syms),
              LAMBDA this :
         Bind(StructureRecords(Tail(lists), counter + 1, syms),
              LAMBDA rest : Ok(this \o rest)))

\* emit_structure_list
emit_structure_list(syms, sorted) ==
    StructureRecords(depth_sorted_symbols(sorted), 0, syms)

----------------------------------------------------------------------------
(* The symbol-table section *)

RECURSIVE CtypesArgTypes(_, _)
CtypesArgTypes(args, syms) ==
    IF args = <<>> THEN Ok(<<>>)
    ELSE Bind(calculate_type_string(Head(args).type, syms, "ctypes_args"),
              LAMBDA ctypes_type :
         Bind(CtypesArgTypes(Tail(args), syms),
              LAMBDA rest :
                 Ok(<<[shim |-> "argtype", name |-> <<>>, ty |-> ctypes_type]>>
                    \o rest)))

\* the three lines emit_symbol_table appends for one function cursor
SymbolBinding(c, syms) ==
    Bind(CtypesArgTypes(ast[c].args, syms), LAMBDA arg_types :
    Bind(calculate_type_string(ast[c].result, syms, "ctypes_args"),
         LAMBDA return_type :
       Ok(<<[Line("=_Cdll.", 0) EXCEPT !.name = get_internal_name(c), !.cursor = c],
            [Line(".argtypes=", 0) EXCEPT
                !.name = get_internal_name(c), !.cursor = c,
                !.self = ast[c].kind # "FUNCTION_DECL", !.args = arg_types],
            [Line(".restype=", 0) EXCEPT
                !.name = get_internal_name(c), !.cursor = c,
                !.ty = return_type]>>)))

RECURSIVE SymbolBindings(_, _)
SymbolBindings(cursors, syms) ==
    IF cursors = <<>> THEN Ok(<<>>)
    ELSE Bind(SymbolBinding(Head(cursors), syms), LAMBDA this :
         Bind(SymbolBindings(Tail(cursors), syms),
              LAMBDA rest : Ok(this \o rest)))

\* emit_symbol_table
emit_symbol_table(syms, sorted) ==
    SymbolBindings(
        Flatten(SelectSeq(sorted, LAMBDA l : ast[l[1]].kind \in FunctionKinds)),
        syms)

----------------------------------------------------------------------------
(* The output file *)

\* assemble_output_file: the header comment carries datetime.now(); the
\* library name and the command line are the same in every run
assemble_output_file(api, structures, table) ==
    <<[Line("entanglement.py version now", 0) EXCEPT !.n = clock],
      Line("PYTHON API", 0)>>
    \o api \o <<Line("STRUCTURE LIST", 0)>>
    \o structures \o <<Line("SYMBOL TABLE", 0)>>
    \o table \o <<Line("dragons", 0)>>

----------------------------------------------------------------------------
(* main(): one action per statement of its body that can fail.  The run    *)
(* ends with pc = "done" or, after an exception, with pc = "aborted".      *)

NoFile == [exists |-> FALSE, content |-> <<>>]

Abort(message) ==
    /\ raised' = message
    /\ pc' = "aborted"

\* load_translation_unit with the diagnostics left unread
load_translation_unit_unchecked(header) == Ok(header)

\* load_translation_unit: raises when a diagnostic of the parse is an error
load_translation_unit(header) ==
    IF diagnostics[header] THEN Raise("Translation unit would not compile")
    ELSE Ok(header)

\* parse_argv with the test of len(non_flags) one too low
parse_argv_of_two(argv) ==
    LET is_flag(arg) == StartsWith(arg, <<45>>)
        non_flags == SelectSeq(argv, LAMBDA arg : ~is_flag(arg))
    IN [ok |-> Len(non_flags) >= 2,
        compiler_flags |-> SelectSeq(argv, is_flag),
        lib_name |-> IF Len(non_flags) < 2 THEN <<>> ELSE non_flags[1],
        output_file |-> IF Len(non_flags) < 2 THEN <<>>
                        ELSE non_flags[Len(non_flags)],
        header_files |-> IF Len(non_flags) < 2 THEN <<>>
                         ELSE SubSeq(non_flags, 2, Len(non_flags) - 1)]

\* parse_argv: the value it returns and the globals it leaves; a global it
\* has not assigned is <<>>
parse_argv(argv) ==
    LET is_flag(arg) == StartsWith(arg, <<45>>)
        non_flags == SelectSeq(argv, LAMBDA arg : ~is_flag(arg))
    IN [ok |-> Len(non_flags) >= 3,
        compiler_flags |-> SelectSeq(argv, is_flag),
        lib_name |-> IF Len(non_flags) < 3 THEN <<>> ELSE non_flags[1],
        output_file |-> IF Len(non_flags) < 3 THEN <<>>
                        ELSE non_flags[Len(non_flags)],
        header_files |-> IF Len(non_flags) < 3 THEN <<>>
                         ELSE SubSeq(non_flags, 2, Len(non_flags) - 1)]

\* 'if not parse_argv(argv): raise usage(_usage)'
ParseArgv ==
    /\ pc = "parse_argv"
    /\ LET Parsed(parsed) ==
               /\ command_line' =
                      [argv |-> command_line.argv,
                       compiler_flags |-> parsed.compiler_flags,
                       lib_name |-> parsed.lib_name,
                       header_files |-> parsed.header_files,
                       output_file |-> parsed.output_file]
               /\ IF parsed.ok THEN pc' = "gather" /\ UNCHANGED raised
                  ELSE Abort("usage")
       IN Parsed(parse_argv(command_line.argv))
    /\ UNCHANGED <<ast, diagnostics, inserted, mapped, clock, hash_seed,
                   header_index, symbols, sorted_symbols, api_index,
                   current_namespace, python_api, structure_list, symbol_table,
                   output_file, run, previous_output>>

\* the loop over _arg_header_files: load_translation_unit, then
\* symbols_gather_required on the cursor of the translation unit
GatherHeader ==
    /\ pc = "gather"
    /\ LET Gathered(gathered) ==
               IF gathered.err # ""
               THEN Abort(gathered.err) /\ UNCHANGED <<symbols, header_index>>
               ELSE /\ symbols' = gathered.val
                    /\ header_index' = header_index + 1
                    /\ pc' = IF header_index = Len(command_line.header_files)
                             THEN "sort" ELSE "gather"
                    /\ UNCHANGED raised
       IN Gathered(Bind(load_translation_unit(header_index),
                        LAMBDA translation_unit :
                           symbols_gather_required(0, translation_unit, symbols)))
    /\ UNCHANGED <<ast, diagnostics, command_line, inserted, mapped, clock, hash_seed, sorted_symbols, api_index,
                   current_namespace, python_api, structure_list, symbol_table,
                   output_file, run, previous_output>>

\* a symbols_sort that keeps of every list the cursor it sorts by and drops
\* the others from the list
SortSymbolsInPlace ==
    /\ pc = "sort"
    /\ LET Sorted(sorted) ==
               IF sorted.err # ""
               THEN Abort(sorted.err) /\ UNCHANGED <<sorted_symbols, api_index, symbols>>
               ELSE /\ sorted_symbols' = sorted.val
                    /\ symbols' = [i \in 1..Len(symbols) |->
                                      [symbols[i] EXCEPT !.list = <<Head(@)>>]]
                    /\ api_index' = 1
                    /\ pc' = "emit_python_api"
                    /\ UNCHANGED raised
       IN Sorted(IF symbols = <<>> THEN Raise("No symbols found")
                 ELSE symbols_sort(symbols))
    /\ UNCHANGED <<ast, diagnostics, command_line, inserted, mapped, clock, hash_seed, header_index,
                   current_namespace, python_api, structure_list, symbol_table,
                   output_file, run, previous_output>>

\* 'if not symbols: raise' and symbols_sort
SortSymbols ==
    /\ pc = "sort"
    /\ LET Sorted(sorted) ==
               IF sorted.err # ""
               THEN Abort(sorted.err) /\ UNCHANGED <<sorted_symbols, api_index>>
               ELSE /\ sorted_symbols' = sorted.val
                    /\ api_index' = 1
                    /\ pc' = "emit_python_api"
                    /\ UNCHANGED raised
       IN Sorted(IF symbols = <<>> THEN Raise("No symbols found")
                 ELSE symbols_sort(symbols))
    /\ UNCHANGED <<ast, diagnostics, command_line, inserted, mapped, clock, hash_seed, header_index, symbols,
                   current_namespace, python_api, structure_list, symbol_table,
                   output_file, run, previous_output>>

\* emit_python_api, one iteration of its loop over sorted_symbols
EmitPythonApi ==
    /\ pc = "emit_python_api"
    /\ LET Iterated(iteration) ==
               IF iteration.err # ""
               THEN Abort(iteration.err)
                    /\ UNCHANGED <<api_index, current_namespace, python_api>>
               ELSE /\ python_api' = python_api \o iteration.val.lines
                    /\ current_namespace' = iteration.val.stack
                    /\ api_index' = api_index + 1
                    /\ pc' = IF api_index = Len(sorted_symbols)
                             THEN "emit_structure_list" ELSE "emit_python_api"
                    /\ UNCHANGED raised
       IN Iterated(ApiIteration(sorted_symbols[api_index], current_namespace, symbols))
    /\ UNCHANGED <<ast, diagnostics, command_line, inserted, mapped, clock, hash_seed, header_index, symbols,
                   sorted_symbols, structure_list, symbol_table, output_file, run,
                   previous_output>>

EmitStructureList ==
    /\ pc = "emit_structure_list"
    /\ LET Emitted(emitted) ==
               IF emitted.err # ""
               THEN Abort(emitted.err) /\ UNCHANGED structure_list
               ELSE /\ structure_list' = emitted.val
                    /\ pc' = "emit_symbol_table"
                    /\ UNCHANGED raised
       IN Emitted(emit_structure_list(symbols, sorted_symbols))
    /\ UNCHANGED <<ast, diagnostics, command_line, inserted, mapped, clock, hash_seed, header_index, symbols,
                   sorted_symbols, api_index, current_namespace, python_api,
                   symbol_table, output_file, run, previous_output>>

EmitSymbolTable ==
    /\ pc = "emit_symbol_table"
    /\ LET Emitted(emitted) ==
               IF emitted.err # ""
               THEN Abort(emitted.err) /\ UNCHANGED symbol_table
               ELSE /\ symbol_table' = emitted.val
                    /\ pc' = "open"
                    /\ UNCHANGED raised
       IN Emitted(emit_symbol_table(symbols, sorted_symbols))
    /\ UNCHANGED <<ast, diagnostics, command_line, inserted, mapped, clock, hash_seed, header_index, symbols,
                   sorted_symbols, api_index, current_namespace, python_api,
                   structure_list, output_file, run, previous_output>>

\* open(_arg_output_file, 'w') creates the file or truncates it
OpenOutputFile ==
    /\ pc = "open"
    /\ output_file' = [exists |-> TRUE, content |-> <<>>]
    /\ pc' = "write"
    /\ UNCHANGED <<ast, diagnostics, command_line, inserted, mapped, clock, hash_seed, header_index, symbols,
                   sorted_symbols, api_index, current_namespace, python_api,
                   structure_list, symbol_table, raised, run, previous_output>>

\* open() raises OSError: the destination is left as it was
OpenFails ==
    /\ pc = "open"
    /\ Abort("OSError")
    /\ UNCHANGED <<ast, diagnostics, command_line, inserted, mapped, clock, hash_seed, header_index, symbols,
                   sorted_symbols, api_index, current_namespace, python_api,
                   structure_list, symbol_table, output_file, run, previous_output>>

\* f.write('\n'.join(output_lines)) and the close of the with block
WriteOutputFile ==
    /\ pc = "write"
    /\ output_file' =
           [exists |-> TRUE,
            content |-> assemble_output_file(python_api, structure_list, symbol_table)]
    /\ pc' = "done"
    /\ UNCHANGED <<ast, diagnostics, command_line, inserted, mapped, clock, hash_seed, header_index, symbols,
                   sorted_symbols, api_index, current_namespace, python_api,
                   structure_list, symbol_table, raised, run, previous_output>>

\* the write raises OSError after part of the text reached the file
WriteFails ==
    /\ pc = "write"
    /\ LET Partly(output_lines) ==
               \E written \in {0, Len(output_lines) - 1} :
                   output_file' = [exists |-> TRUE,
                                   content |-> SubSeq(output_lines, 1, written)]
       IN Partly(assemble_output_file(python_api, structure_list, symbol_table))
    /\ Abort("OSError")
    /\ UNCHANGED <<ast, diagnostics, command_line, inserted, mapped, clock, hash_seed, header_index, symbols,
                   sorted_symbols, api_index, current_namespace, python_api,
                   structure_list, symbol_table, run, previous_output>>

\* number of runs of the generator over the same command line
MaxRuns == 2

\* latest reading of the clock, and largest hash salt
MaxClock == 2
MaxSeed == 1

\* The generator is started again on the same headers, flags and command
\* line: a new process, a later time, the destination as the last run left it.
RunAgain ==
    /\ pc \in {"done", "aborted"}
    /\ run < MaxRuns
    /\ run' = run + 1
    /\ previous_output' = output_file
    /\ clock' \in clock..MaxClock
    /\ hash_seed' \in 0..MaxSeed
    /\ pc' = "gather"
    /\ header_index' = 1
    /\ symbols' = <<>>
    /\ sorted_symbols' = <<>>
    /\ api_index' = 0
    /\ current_namespace' = <<>>
    /\ python_api' = <<>>
    /\ structure_list' = <<>>
    /\ symbol_table' = <<>>
    /\ raised' = "none"
    /\ UNCHANGED <<ast, diagnostics, command_line, inserted, mapped, output_file>>

\* a command line of n headers: lib, h1 ... hn, out
HeaderArgs(n) == [i \in 1..n |-> <<104, 48 + i>>]

\* the globals parse_argv leaves for a command line
ParsedGlobals(argv) ==
    [argv |-> argv,
     compiler_flags |-> parse_argv(argv).compiler_flags,
     lib_name |-> parse_argv(argv).lib_name,
     header_files |-> parse_argv(argv).header_files,
     output_file |-> parse_argv(argv).output_file]

\* the state of a process that has just parsed its command line
NotMapped == [type |-> <<>>, result_kind |-> "", result |-> Raise("not called")]

Started ==
    /\ pc = "gather"
    /\ header_index = 1
    /\ symbols = <<>>
    /\ sorted_symbols = <<>>
    /\ api_index = 0
    /\ current_namespace = <<>>
    /\ python_api = <<>>
    /\ structure_list = <<>>
    /\ symbol_table = <<>>
    /\ raised = "none"
    /\ run = 1
    /\ output_file = NoFile
    /\ previous_output = NoFile
    /\ inserted = <<>>
    /\ mapped = NotMapped
    /\ command_line =
           ParsedGlobals(<<<<108, 105, 98>>>> \o HeaderArgs(Len(diagnostics))
                  \o <<<<111, 117, 116>>>>)

----------------------------------------------------------------------------
(* Building headers: every cursor gets its own USR unless it is given one. *)

WithUsr(cursors) ==
    [i \in 1..Len(cursors) |->
        IF cursors[i].usr = 0 THEN [cursors[i] EXCEPT !.usr = i] ELSE cursors[i]]

Arg(name, type) == [name |-> name, type |-> type]
Field(name, type) == [name |-> name, type |-> type, bits |-> 0]

\* an annotated, public, complete class of header 1 with one int field x
ClassCursor(spelling, parent, bases) ==
    [NoCursor EXCEPT !.kind = "CLASS_DECL", !.spelling = spelling, !.tu = 1,
                     !.parent = parent, !.annotated = TRUE, !.bases = bases,
                     !.fields = <<Field(<<120>>, Fund("INT"))>>, !.size = 4]

\* an annotated, public, external function or method of header 1
FunctionCursor(kind, spelling, parent, types, pure) ==
    [NoCursor EXCEPT !.kind = kind, !.spelling = spelling, !.tu = 1,
                     !.parent = parent, !.annotated = TRUE, !.access = "PUBLIC",
                     !.args = [i \in 1..Len(types) |-> Arg(<<>>, types[i])],
                     !.virtual = pure, !.pure = pure]

NamespaceCursor(spelling, parent) ==
    [NoCursor EXCEPT !.kind = "NAMESPACE", !.spelling = spelling, !.tu = 1,
                     !.parent = parent]

----------------------------------------------------------------------------
(* Overload sets.  The header declares class Base (cursor 1), class        *)
(* Derived : Base (2), class Other (3), class Host (4) and then either     *)
(* free functions f or methods Host::m, one per signature of the list.     *)

\* most overloads of one name, and most parameters of an overload
MaxOverloads == 2
MaxArgs == 2

\* the types of a first parameter
FirstTypes ==
    {Fund("INT"), Fund("DOUBLE"), LRef(RecordT(1)), Ptr(RecordT(2)),
     LRef(RecordT(3)), Typedef(Ptr(RecordT(2)))}

\* the signatures: any first parameter alone; an int or a Base& followed by
\* an int or a double and then by ints
Signatures ==
    {<<>>} \cup {<<t>> : t \in FirstTypes}
    \cup {<<t, u>> \o [i \in 1..n |-> Fund("INT")] :
            t \in {Fund("INT"), LRef(RecordT(1))},
            u \in {Fund("INT"), Fund("DOUBLE")},
            n \in 0..(MaxArgs - 2)}

\* lists of distinct signatures in declaration order
RECURSIVE SignatureLists(_)
SignatureLists(n) ==
    IF n = 0 THEN {<<>>}
    ELSE LET shorter == SignatureLists(n - 1)
             longer == {Append(l, s) : l \in {x \in shorter : Len(x) = n - 1},
                                       s \in Signatures}
         IN shorter \cup
            {l \in longer : \A i, j \in 1..Len(l) : i # j => l[i] # l[j]}

OverloadHeader(list, methods, pure) ==
    WithUsr(<<ClassCursor(<<66, 97, 115, 101>>, 0, <<>>),
              ClassCursor(<<68, 101, 114, 105, 118, 101, 100>>, 0, <<1>>),
              ClassCursor(<<79, 116, 104, 101, 114>>, 0, <<>>),
              ClassCursor(<<72, 111, 115, 116>>, 0, <<>>)>>
            \o [i \in 1..Len(list) |->
                  IF methods
                  THEN FunctionCursor("CXX_METHOD", <<109>>, 4, list[i], i \in pure)
                  ELSE FunctionCursor("FUNCTION_DECL", <<102>>, 0, list[i], FALSE)])

OverloadHeaders ==
    {OverloadHeader(l, FALSE, {}) : l \in SignatureLists(MaxOverloads) \ {<<>>}}
    \cup {OverloadHeader(l, TRUE, p) :
            l \in {x \in SignatureLists(MaxOverloads) :
                     x # <<>> /\ \A i \in 1..Len(x) : Len(x[i]) <= 1},
            p \in SUBSET (1..MaxOverloads)}

InitOverloads ==
    /\ ast \in OverloadHeaders
    /\ diagnostics = <<FALSE>>
    /\ clock = 1
    /\ hash_seed = 0
    /\ Started

NextApi == GatherHeader \/ SortSymbols \/ EmitPythonApi

\* the generator up to the end of the API pass, over every overload set
SpecOverloads == InitOverloads /\ [][NextApi]_vars

----------------------------------------------------------------------------
(* Running an emitted selector.  The first positional argument of a call   *)
(* is an instance of a bound class, a ctypes pointer to one, or a number.  *)

Instance(c) == [tag |-> "instance", cls |-> c]
PointerTo(c) == [tag |-> "pointer", cls |-> c]
Number == [tag |-> "int", cls |-> 0]

\* the class bound to a path is a subclass of the class bound to the path
\* of its first base: class _T<n><name>(<path>, <base>)
RECURSIVE IsSubclass(_, _)
IsSubclass(c, path) ==
    \/ calculate_python_package_path(c) = Ok(path)
    \/ ast[c].bases # <<>> /\ IsSubclass(ast[c].bases[1], path)

\* isinstance(value, <type string>) for the type strings of the emitted
\* checks: a class path, _Ctypes.POINTER(path), or a ctypes scalar
IsInstance(value, ty) ==
    IF Len(ty) = 1 /\ ty[1].t = "path"
    THEN value.tag = "instance" /\ IsSubclass(value.cls, ty[1].p)
    ELSE IF Len(ty) = 3 /\ ty[1].t = "_Ctypes.POINTER(" /\ ty[2].t = "path"
    THEN value.tag = "pointer"
         /\ calculate_python_package_path(value.cls) = Ok(ty[2].p)
    ELSE FALSE

Called(c) == [outcome |-> "called", cursor |-> c, n |-> 0]
ArgCountError(n) == [outcome |-> "AssertionError: Arg count", cursor |-> 0, n |-> n]
ReturnedNone == [outcome |-> "None", cursor |-> 0, n |-> 0]

\* the body of one case, from line i on
RECURSIVE RunBranches(_, _, _)
RunBranches(lines, i, arg0) ==
    IF i > Len(lines) \/ lines[i].op \in {"case", "case _"} THEN ReturnedNone
    ELSE IF lines[i].op = "if isinstance"
    THEN IF IsInstance(arg0, lines[i].ty)
         THEN RunBranches(lines, i + 1, arg0)
         ELSE RunBranches(lines, i + 2, arg0)
    ELSE IF lines[i].op = "return" THEN Called(lines[i].cursor)
    ELSE RunBranches(lines, i + 1, arg0)

\* match _Len(_Args) over the cases of the selector: n positional
\* arguments, the first of them arg0
RunSelector(lines, n, arg0) ==
    IF \E i \in 1..Len(lines) : lines[i].op = "case" /\ lines[i].n = n
    THEN RunBranches(lines,
             (CHOOSE i \in 1..Len(lines) : lines[i].op = "case" /\ lines[i].n = n) + 1,
             arg0)
    ELSE ArgCountError(n)

\* the lines of the selector of the overloads named name, from its def on
SelectorOf(api, name) ==
    IF \E i \in 1..Len(api) : api[i].op = "def *_Args" /\ api[i].name = name
    THEN SubSeq(api,
             CHOOSE i \in 1..Len(api) : api[i].op = "def *_Args" /\ api[i].name = name,
             CHOOSE j \in 1..Len(api) :
                 /\ api[j].op = "assert False, Arg count"
                 /\ \E i \in 1..j : /\ api[i].op = "def *_Args" /\ api[i].name = name
                                    /\ \A k \in i..(j - 1) :
                                           api[k].op # "assert False, Arg count")
    ELSE <<>>

----------------------------------------------------------------------------
(* Overload sets: what the claims speak of *)

\* the API pass has run to its end
ApiEmitted == pc = "emit_structure_list"

\* the lists of sorted_symbols that hold more than one function
OverloadLists ==
    {sorted_symbols[i] : i \in {j \in 1..Len(sorted_symbols) :
        Len(sorted_symbols[j]) > 1
        /\ ast[sorted_symbols[j][1]].kind \in FunctionKinds}}

Candidates(overloads) == {overloads[i] : i \in {j \in 1..Len(overloads) :
                                                 ~ast[overloads[j]].pure}}

ArgCount(c) == Len(ast[c].args)

\* the class or struct of the first parameter, 0 if it has none
Arg0Class(c) ==
    IF ast[c].args = <<>> THEN 0
    ELSE LET arg0_type == get_canonical(ast[c].args[1].type)
         IN get_declaration(IF TypeKind(arg0_type) \in PointerKinds
                            THEN get_canonical(get_pointee(arg0_type))
                            ELSE arg0_type)

RECURSIVE InheritsFrom(_, _)
InheritsFrom(d, b) ==
    ast[d].bases # <<>> /\ (ast[d].bases[1] = b \/ InheritsFrom(ast[d].bases[1], b))

\* the first arguments a call may pass
ArgValues ==
    {Number} \cup {Instance(c) : c \in {d \in Cursors : ast[d].kind \in RecordKinds}}
    \cup {PointerTo(c) : c \in {d \in Cursors : ast[d].kind \in RecordKinds}}

SelectorFor(overloads) ==
    SelectorOf(python_api, get_dunder_name(overloads[1]).val)

\* C1: whenever two candidates of one argument-count bucket have the same
\* first-parameter type (so the same inheritance generation), generation
\* aborts: no selector is emitted for them, and none that picks between
\* them by declaration order.
C1_SameFirstParameterAborts ==
    ApiEmitted =>
        \A overloads \in OverloadLists :
            \A c, d \in Candidates(overloads) :
                (c # d /\ ArgCount(c) = ArgCount(d) /\ ArgCount(c) > 0)
                => get_canonical(ast[c].args[1].type)
                   # get_canonical(ast[d].args[1].type)

OnePerArgCount(overloads) ==
    \A c, d \in Candidates(overloads) : c # d => ArgCount(c) # ArgCount(d)

\* C2: when each argument count is declared by at most one candidate, a
\* selector is emitted; called with n positional arguments it calls the
\* candidate with n parameters, and for an n no candidate declares it fails
\* with the assertion that names the count.
C2_DispatchByArgCount ==
    /\ (pc = "aborted" /\ header_index > Len(diagnostics)
        /\ \A i \in 1..Len(sorted_symbols) : OnePerArgCount(sorted_symbols[i]))
       => raised # "Unable to disambiguate overloaded functions"
    /\ ApiEmitted =>
        \A overloads \in OverloadLists :
            OnePerArgCount(overloads) =>
                \A n \in 0..(MaxArgs + 1), arg0 \in ArgValues :
                    IF \E c \in Candidates(overloads) : ArgCount(c) = n
                    THEN \E c \in Candidates(overloads) :
                            /\ ArgCount(c) = n
                            /\ RunSelector(SelectorFor(overloads), n, arg0) = Called(c)
                    ELSE RunSelector(SelectorFor(overloads), n, arg0) = ArgCountError(n)

\* a selector over f() and an f of two parameters has been emitted
C2_Witness ==
    /\ ApiEmitted
    /\ \E overloads \in OverloadLists :
          /\ OnePerArgCount(overloads)
          /\ \E c, d \in Candidates(overloads) :
                /\ ArgCount(c) = 0 /\ ArgCount(d) = 2
                /\ RunSelector(SelectorFor(overloads), 2, Number) = Called(d)
                /\ RunSelector(SelectorFor(overloads), 0, Number) = Called(c)
                /\ RunSelector(SelectorFor(overloads), 1, Number) = ArgCountError(1)

\* C3: of two candidates with the same argument count whose first
\* parameters are a class and a class derived from it, the check for the
\* derived class comes before the branch of the base class; an instance of
\* the derived class reaches the derived candidate and an instance of the
\* base class the base candidate, in either declaration order.
C3_DerivedBeforeBase ==
    ApiEmitted =>
        \A overloads \in OverloadLists :
            \A b, d \in Candidates(overloads) :
                (/\ ArgCount(b) = ArgCount(d)
                 /\ Arg0Class(b) # 0 /\ Arg0Class(d) # 0
                 /\ InheritsFrom(Arg0Class(d), Arg0Class(b)))
                => LET selector == SelectorFor(overloads)
                   IN /\ \E i, j \in 1..Len(selector) :
                            /\ i < j
                            /\ selector[i].op = "if isinstance"
                            /\ selector[i + 1].cursor = d
                            /\ selector[j].op = "return" /\ selector[j].cursor = b
                      /\ RunSelector(selector, ArgCount(d), Instance(Arg0Class(d)))
                         = Called(d)
                      /\ RunSelector(selector, ArgCount(b), Instance(Arg0Class(b)))
                         = Called(b)

----------------------------------------------------------------------------
(* Whole runs.  Two headers: the first declares an enum (cursor 1), class  *)
(* Base (2) and two overloads of g (3, 4); the second declares Base again  *)
(* (5, the USR of 2) and h(Base&) (6).  One declaration may be at fault.   *)

EnumCursor(spelling, parent, underlying) ==
    [NoCursor EXCEPT !.kind = "ENUM_DECL", !.spelling = spelling, !.tu = 1,
                     !.parent = parent, !.annotated = TRUE,
                     !.anonymous = (spelling = <<>>), !.enum_type = underlying,
                     !.constants = <<[name |-> <<65>>, value |-> 1]>>]

\* the stage a fault stops the run in
Faults ==
    {"none", "private enum", "reserved name", "nothing annotated",
     "ambiguous overload", "empty class", "enum over a typedef"}

RunHeaders(fault, anonymous_enum) ==
    LET enum == EnumCursor(IF anonymous_enum THEN <<>> ELSE <<69>>, 0,
                           IF fault = "enum over a typedef"
                           THEN Typedef(Fund("UCHAR")) ELSE Fund("INT"))
        base == ClassCursor(<<66, 97, 115, 101>>, 0, <<>>)
        g == IF fault = "reserved name" THEN <<95, 71>> ELSE <<103>>
        declared ==
            WithUsr(<<IF fault = "private enum"
                      THEN [enum EXCEPT !.access = "PRIVATE"] ELSE enum,
                      IF fault = "empty class"
                      THEN [base EXCEPT !.fields = <<>>] ELSE base,
                      FunctionCursor("FUNCTION_DECL", g, 0,
                          <<IF fault = "enum over a typedef"
                            THEN EnumT(1) ELSE Fund("INT")>>, FALSE),
                      FunctionCursor("FUNCTION_DECL", g, 0,
                          IF fault = "ambiguous overload"
                          THEN <<Fund("DOUBLE")>>
                          ELSE <<Fund("INT"), Fund("INT")>>, FALSE),
                      [base EXCEPT !.tu = 2, !.usr = 2],
                      [FunctionCursor("FUNCTION_DECL", <<104>>, 0,
                          <<LRef(RecordT(2))>>, FALSE) EXCEPT !.tu = 2]>>)
    IN IF fault = "nothing annotated"
       THEN [i \in 1..Len(declared) |-> [declared[i] EXCEPT !.annotated = FALSE]]
       ELSE declared

InitRuns ==
    /\ \E fault \in Faults, anonymous_enum \in BOOLEAN :
           ast = RunHeaders(fault, anonymous_enum)
    /\ diagnostics \in {<<FALSE, FALSE>>, <<TRUE, FALSE>>, <<FALSE, TRUE>>}
    /\ clock = 1
    /\ hash_seed \in 0..MaxSeed
    /\ Started

Next ==
    \/ GatherHeader \/ SortSymbols \/ EmitPythonApi \/ EmitStructureList
    \/ EmitSymbolTable \/ OpenOutputFile \/ OpenFails \/ WriteOutputFile
    \/ WriteFails \/ RunAgain

\* runs of the generator, one after the other, over the same two headers
Spec == InitRuns /\ [][Next]_vars

\* a file holds the whole text of a run
Complete(file) ==
    /\ file.exists /\ file.content # <<>>
    /\ file.content[Len(file.content)].op = "dragons"

\* C4: a run that writes its output after an earlier run over the same
\* headers, flags and command line wrote its own leaves the same text in
\* the file: no line depends on the time or on the process.
C4_RunsWriteTheSameFile ==
    (pc = "done" /\ Complete(previous_output))
    => output_file.content = previous_output.content

\* every stage before the open is behind the run
SectionsEmitted ==
    /\ raised = "none"
    /\ header_index = Len(diagnostics) + 1
    /\ sorted_symbols # <<>>
    /\ api_index = Len(sorted_symbols) + 1
    /\ emit_structure_list(symbols, sorted_symbols) = Ok(structure_list)
    /\ emit_symbol_table(symbols, sorted_symbols) = Ok(symbol_table)

\* C5: a run over headers of which one has an error diagnostic or a
\* declaration at fault comes nowhere near the output file; the file is
\* opened and written only in a run that gathered every header and emitted
\* the three sections without an error, and no other step changes it.
C5_OutputOnlyAfterAllStages ==
    /\ [](pc \in {"open", "write", "done"}
          => /\ \A i \in 1..Len(diagnostics) : ~diagnostics[i]
             /\ \E anonymous_enum \in BOOLEAN :
                    ast = RunHeaders("none", anonymous_enum)
             /\ SectionsEmitted)
    /\ [][output_file' # output_file
          => pc \in {"open", "write"} /\ SectionsEmitted]_vars

\* the second header did not compile: the run has stopped and there is no
\* output file
C5_Witness ==
    /\ pc = "aborted" /\ raised = "Translation unit would not compile"
    /\ header_index = 2
    /\ output_file = NoFile

----------------------------------------------------------------------------
(* Insertions.  Header 1 declares f(int) (cursor 1), f(double) (2), class  *)
(* K (3) and an unnamed enum (4); header 2 declares the first three again  *)
(* (5, 6, 7, with the USRs of 1, 2, 3), f(int, int) (8) and _G (9).        *)

\* most calls of symbols_add in a run
MaxInsertions == 4

AddHeaders ==
    LET f(types) == FunctionCursor("FUNCTION_DECL", <<102>>, 0, types, FALSE)
        K == ClassCursor(<<75>>, 0, <<>>)
    IN WithUsr(<<f(<<Fund("INT")>>), f(<<Fund("DOUBLE")>>), K,
                 EnumCursor(<<>>, 0, Fund("INT")),
                 [f(<<Fund("INT")>>) EXCEPT !.tu = 2, !.usr = 1],
                 [f(<<Fund("DOUBLE")>>) EXCEPT !.tu = 2, !.usr = 2],
                 [K EXCEPT !.tu = 2, !.usr = 3],
                 [f(<<Fund("INT"), Fund("INT")>>) EXCEPT !.tu = 2],
                 [FunctionCursor("FUNCTION_DECL", <<95, 71>>, 0, <<>>, FALSE)
                      EXCEPT !.tu = 2]>>)

InitAdd ==
    /\ ast = AddHeaders
    /\ diagnostics = <<FALSE, FALSE>>
    /\ clock = 1
    /\ hash_seed \in 0..MaxSeed
    /\ Started

\* one call of symbols_add from the gather pass
SymbolsAdd ==
    /\ pc = "gather"
    /\ Len(inserted) < MaxInsertions
    /\ \E c \in {d \in Cursors : ast[d].kind \notin {"NAMESPACE", "LINKAGE_SPEC"}} :
           LET Added(result) ==
                   IF result.err # ""
                   THEN Abort(result.err) /\ UNCHANGED symbols
                   ELSE /\ symbols' = result.val
                        /\ UNCHANGED <<pc, raised>>
           IN /\ Added(symbols_add(c, symbols))
              /\ inserted' = Append(inserted, c)
    /\ UNCHANGED <<ast, diagnostics, command_line, mapped, clock, hash_seed, header_index,
                   sorted_symbols, api_index, current_namespace, python_api,
                   structure_list, symbol_table, output_file, run,
                   previous_output>>

NextAdd == SymbolsAdd

SpecAdd == InitAdd /\ [][NextAdd]_vars

\* the list under a key, empty when the table has no such key
ListUnder(syms, key) ==
    IF \E i \in 1..Len(syms) : syms[i].key = key
    THEN syms[CHOOSE i \in 1..Len(syms) : syms[i].key = key].list
    ELSE <<>>

UsrsOf(list) == {ast[list[j]].usr : j \in 1..Len(list)}

\* C6: after any sequence of insertions no list of the symbol table holds
\* two cursors of one USR; an insertion of a declaration whose USR is under
\* its key already leaves the table as it was, and one of a new USR adds
\* the cursor at the end of the list of its key and touches no other list.
C6_AddIsIdempotent ==
    /\ [](\A i \in 1..Len(symbols) :
             \A j, k \in 1..Len(symbols[i].list) :
                 j # k => ast[symbols[i].list[j]].usr # ast[symbols[i].list[k]].usr)
    /\ [][(inserted' # inserted /\ raised' = "none")
          => LET c == inserted'[Len(inserted')]
                 key == calculate_python_package_path(c).val
             IN /\ \A other \in (SymbolKeys(symbols) \cup SymbolKeys(symbols')) \ {key} :
                       ListUnder(symbols', other) = ListUnder(symbols, other)
                /\ IF ast[c].usr \in UsrsOf(ListUnder(symbols, key))
                   THEN symbols' = symbols
                   ELSE ListUnder(symbols', key)
                        = Append(ListUnder(symbols, key), c)]_vars

\* f(int) of header 1, its redeclaration of header 2, f(double) and its
\* redeclaration went in: the list of f holds the two overloads once each
C6_Witness ==
    /\ inserted = <<1, 5, 2, 6>>
    /\ raised = "none"
    /\ symbols = <<[key |-> <<102>>, list |-> <<1, 2>>]>>

----------------------------------------------------------------------------
(* Type strings.  The header declares the annotated class K (cursor 1),    *)
(* the annotated enum E (2) and the class U (3), which is not annotated.   *)
(* After the gather pass the emit passes call calculate_type_string on the *)
(* types of parameters, results and fields.                                *)

\* most layers (pointer, reference, array, typedef) around a type
MaxTypeDepth == 3

TypeHeaders ==
    WithUsr(<<ClassCursor(<<75>>, 0, <<>>),
              [EnumCursor(<<69>>, 0, Fund("INT")) EXCEPT !.constants = <<>>],
              [ClassCursor(<<85>>, 0, <<>>) EXCEPT !.annotated = FALSE]>>)

WrapperLayers ==
    {Layer("POINTER", 0), Layer("LVALUEREFERENCE", 0),
     Layer("RVALUEREFERENCE", 0), Layer("CONSTANTARRAY", 2),
     Layer("TYPEDEF", 0)}

\* C++ has no pointer to, reference to or array of references, no array of
\* void and no reference to void
WellFormed(t) ==
    LET canonical == get_canonical(t)
    IN \A i \in 2..Len(canonical) :
          /\ canonical[i].kind \notin ReferenceKinds
          /\ canonical[i].kind = "VOID"
             => canonical[i - 1].kind = "POINTER"

RECURSIVE TypesOfDepth(_)
TypesOfDepth(n) ==
    IF n = 0
    THEN {Fund("INT"), Fund("CHAR_S"), Fund("VOID"), RecordT(1), EnumT(2),
          RecordT(3)}
    ELSE LET inner == TypesOfDepth(n - 1)
         IN inner \cup {t \in {<<w>> \o u : w \in WrapperLayers, u \in inner} :
                           WellFormed(t)}

InitType ==
    /\ ast = TypeHeaders
    /\ diagnostics = <<FALSE>>
    /\ clock = 1
    /\ hash_seed = 0
    /\ Started

\* one call of calculate_type_string over the gathered symbols
MapType ==
    /\ pc = "sort"
    /\ mapped = NotMapped
    /\ \E cpp_type_ref \in TypesOfDepth(MaxTypeDepth),
          result_kind \in type_string_kinds :
           mapped' = [type |-> cpp_type_ref, result_kind |-> result_kind,
                      result |-> calculate_type_string(cpp_type_ref, symbols,
                                                       result_kind)]
    /\ UNCHANGED <<ast, diagnostics, command_line, inserted, clock, hash_seed, pc,
                   header_index, symbols, sorted_symbols, api_index,
                   current_namespace, python_api, structure_list,
                   symbol_table, output_file, raised, run, previous_output>>

NextType == GatherHeader \/ MapType

SpecType == InitType /\ [][NextType]_vars

\* the canonical type is a pointer or reference to a pointer or reference
SecondIndirection(canonical) ==
    /\ Len(canonical) >= 2
    /\ canonical[1].kind \in PointerKinds
    /\ canonical[2].kind \in PointerKinds

RECURSIVE ElementType(_)
ElementType(canonical) ==
    IF canonical[1].kind = "CONSTANTARRAY" THEN ElementType(Tail(canonical))
    ELSE canonical

\* C8: for each of the four purposes calculate_type_string raises "Only one
\* pointer or reference allowed in an API type" and returns no type string
\* for a type whose canonical form is a pointer or reference to a pointer or
\* reference, and for a constant array of such a type when the purpose is
\* an aggregate field.
C8_SecondIndirectionRaises ==
    mapped.result_kind \in type_string_kinds =>
        LET canonical == get_canonical(mapped.type)
        IN (\/ SecondIndirection(canonical)
            \/ /\ mapped.result_kind = "ctypes_struct"
               /\ canonical[1].kind = "CONSTANTARRAY"
               /\ SecondIndirection(ElementType(canonical)))
           => /\ mapped.result.err
                 = "Only one pointer or reference allowed in an API type"
              /\ mapped.result.val = <<>>

\* a field K **x[2]
C8_Witness ==
    /\ mapped.type = Arr(Ptr(Ptr(RecordT(1))), 2)
    /\ mapped.result_kind = "ctypes_struct"
    /\ mapped.result.err = "Only one pointer or reference allowed in an API type"

----------------------------------------------------------------------------
(* Scopes.  The header declares namespace a (cursor 1) with the namespaces *)
(* b (2) and c (3) in it, and then the entries: each a function or a       *)
(* class, declared at the top, in a::b, in a::c or in a class declared     *)
(* before it.  The names are not in alphabetical order of declaration.     *)

\* the number of entries
MaxEntries == 3

EntryName(i) == <<IF i = 1 THEN 89 ELSE IF i = 2 THEN 88
                  ELSE IF i = 3 THEN 90 ELSE 88 - i>>

RECURSIVE EntryLists(_)
EntryLists(n) ==
    IF n = 0 THEN {<<>>}
    ELSE {l \in {Append(m, [parent |-> p, kind |-> k]) :
                    m \in EntryLists(n - 1), p \in {0, 2, 3} \cup 4..(n + 2),
                    k \in {"function", "class"}} :
             l[n].parent > 3 => l[l[n].parent - 3].kind = "class"}

ScopeHeader(entries) ==
    WithUsr(<<NamespaceCursor(<<97>>, 0), NamespaceCursor(<<98>>, 1),
              NamespaceCursor(<<99>>, 1)>>
            \o [i \in 1..Len(entries) |->
                  IF entries[i].kind = "class"
                  THEN ClassCursor(EntryName(i), entries[i].parent, <<>>)
                  ELSE FunctionCursor(IF entries[i].parent > 3
                                      THEN "CXX_METHOD" ELSE "FUNCTION_DECL",
                                      EntryName(i), entries[i].parent, <<>>,
                                      FALSE)])

InitApi ==
    /\ \E entries \in EntryLists(MaxEntries) : ast = ScopeHeader(entries)
    /\ diagnostics = <<FALSE>>
    /\ clock = 1
    /\ hash_seed = 0
    /\ Started

SpecApi == InitApi /\ [][NextApi]_vars

Push(name) == [e |-> "push", name |-> name, cursor |-> 0]
Pop(name) == [e |-> "pop", name |-> name, cursor |-> 0]
Entry(c) == [e |-> "entry", name |-> ast[c].spelling, cursor |-> c]

\* what a reader of the section sees: scope declarations, placeholders
\* that close a scope, and the entries
RECURSIVE ScopeEvents(_)
ScopeEvents(lines) ==
    IF lines = <<>> THEN <<>>
    ELSE LET l == Head(lines)
         IN (IF l.op = "class" /\ l.cursor = 0 THEN <<Push(l.name)>>
             ELSE IF l.op = "..." /\ l.name # <<>> THEN <<Pop(l.name)>>
             ELSE IF l.op \in {"class", "def", "class IntEnum"}
             THEN <<Entry(l.cursor)>>
             ELSE <<>>) \o ScopeEvents(Tail(lines))

\* length of the longest common prefix of two paths
CommonPrefix(s, t) ==
    CHOOSE k \in 0..Len(s) :
        /\ k <= Len(t) /\ SubSeq(s, 1, k) = SubSeq(t, 1, k)
        /\ \A j \in (k + 1)..Len(s) :
              j > Len(t) \/ SubSeq(s, 1, j) # SubSeq(t, 1, j)

\* the scope an entry leaves open behind it: a class is itself a scope
ScopeAfter(c) ==
    IF ast[c].kind \in RecordKinds
    THEN Append(calculate_namespace(c), ast[c].spelling)
    ELSE calculate_namespace(c)

\* the events the protocol prescribes for the entries, the stack being from
RECURSIVE Protocol(_, _)
Protocol(entries, from) ==
    IF entries = <<>> THEN <<>>
    ELSE LET c == Head(entries)
             to == calculate_namespace(c)
             common == CommonPrefix(from, to)
         IN [k \in 1..(Len(from) - common) |-> Pop(from[Len(from) - k + 1])]
            \o [k \in 1..(Len(to) - common) |-> Push(to[common + k])]
            \o <<Entry(c)>>
            \o Protocol(Tail(entries), ScopeAfter(c))

\* the paths of the scopes the events open, in the order they are opened
RECURSIVE Opened(_, _)
Opened(events, stack) ==
    IF events = <<>> THEN <<>>
    ELSE LET ev == Head(events)
         IN IF ev.e = "pop"
            THEN Opened(Tail(events), SubSeq(stack, 1, Len(stack) - 1))
            ELSE IF ev.e = "push" \/ ast[ev.cursor].kind \in RecordKinds
            THEN <<Append(stack, ev.name)>>
                 \o Opened(Tail(events), Append(stack, ev.name))
            ELSE Opened(Tail(events), stack)

\* the header with X and Y in a::b and Z in a::c, all three functions
ExampleHeader ==
    ScopeHeader(<<[parent |-> 2, kind |-> "function"],
                  [parent |-> 2, kind |-> "function"],
                  [parent |-> 3, kind |-> "function"]>>)

\* C7: at every point of the API pass the section holds, for the entries
\* emitted so far in sorted order, exactly the events of the protocol: the
\* pops from the scope of the entry before back to the common prefix, then
\* the pushes down to the path of the entry, then the entry, so that the
\* stack equals the enclosing path of every entry; no scope is opened
\* twice; and for a.b.X, a.b.Y, a.c.Z the events are push a, push b, X, Y,
\* pop b, push c, Z.
C7_ScopesOpenedOnce ==
    (pc \in {"emit_python_api", "emit_structure_list"} /\ raised = "none") =>
        LET events == ScopeEvents(python_api)
            opened == Opened(events, <<>>)
        IN /\ events = Protocol([i \in 1..(api_index - 1) |-> sorted_symbols[i][1]],
                                <<>>)
           /\ \A i, j \in 1..Len(opened) : i # j => opened[i] # opened[j]
           /\ api_index > 1
              => current_namespace = ScopeAfter(sorted_symbols[api_index - 1][1])
           /\ (ast = ExampleHeader /\ pc = "emit_structure_list")
              => events = <<Push(<<97>>), Push(<<98>>), Entry(5), Entry(4),
                            Pop(<<98>>), Push(<<99>>), Entry(6)>>

\* the pass has gone from a method of a class of a::b over to a function
\* of a::c: the class and b are closed, c is open, a was opened once
C7_Witness ==
    /\ pc = "emit_structure_list"
    /\ \E i \in 1..(Len(python_api) - 4) :
          /\ python_api[i] = [Line("...", 3) EXCEPT !.name = <<89>>]
          /\ python_api[i + 1] = [Line("...", 2) EXCEPT !.name = <<98>>]
          /\ python_api[i + 2] = [Line("class", 1) EXCEPT !.name = <<99>>]
          /\ python_api[i + 3] = Line("@_Staticmethod", 2)
          /\ python_api[i + 4].op = "def" /\ python_api[i + 4].cursor = 6
    /\ Cardinality({i \in 1..Len(python_api) :
                       python_api[i] = [Line("class", 0) EXCEPT !.name = <<97>>]}) = 1

----------------------------------------------------------------------------
(* Class chains.  The header declares the classes Z (cursor 1), Y (2),     *)
(* X (3), ..., each with no base or one declared before it, each annotated *)
(* or not, and each with or without a virtual method m of its own (the     *)
(* methods are the cursors after the classes).                             *)

\* the number of classes
MaxClasses == 3

ChainName(i) == <<91 - i>>

RECURSIVE ChainLists(_)
ChainLists(n) ==
    IF n = 0 THEN {<<>>}
    ELSE {Append(l, [base |-> b, virtual |-> v, annotated |-> a]) :
             l \in ChainLists(n - 1), b \in 0..(n - 1), v \in BOOLEAN,
             a \in BOOLEAN}

RECURSIVE VirtualMethods(_, _)
VirtualMethods(classes, i) ==
    IF i > Len(classes) THEN <<>>
    ELSE (IF classes[i].virtual
          THEN <<[FunctionCursor("CXX_METHOD", <<109>>, i, <<>>, FALSE)
                     EXCEPT !.virtual = TRUE]>>
          ELSE <<>>) \o VirtualMethods(classes, i + 1)

ChainHeader(classes) ==
    WithUsr([i \in 1..Len(classes) |->
                [ClassCursor(ChainName(i), 0,
                             IF classes[i].base = 0 THEN <<>>
                             ELSE <<classes[i].base>>)
                    EXCEPT !.annotated = classes[i].annotated]]
            \o VirtualMethods(classes, 1))

InitLayout ==
    /\ \E classes \in ChainLists(MaxClasses) : ast = ChainHeader(classes)
    /\ diagnostics = <<FALSE>>
    /\ clock = 1
    /\ hash_seed = 0
    /\ Started

NextLayout == GatherHeader \/ SortSymbols \/ EmitPythonApi \/ EmitStructureList

SpecLayout == InitLayout /\ [][NextLayout]_vars

\* the layout section has been emitted
LayoutEmitted == pc = "emit_symbol_table"

\* the positions of the records in the section
Records == {i \in 1..Len(structure_list) : structure_list[i].op = "class _T"}

\* C9: whenever a record names a base class, the record of that base is
\* earlier in the section.
C9_BaseRecordEarlier ==
    LayoutEmitted =>
        \A i \in Records :
            ast[structure_list[i].cursor].bases # <<>>
            => \E j \in Records :
                  /\ j < i
                  /\ structure_list[i].ty = <<PathTok(structure_list[j].name)>>

\* the record of class c has the virtual-table slot
HasSlot(c) ==
    \E i \in Records :
        /\ structure_list[i].cursor = c
        /\ structure_list[i + 2].op = "_Vtable"

DeclaresVirtual(c) == \E m \in MemberFunctions(c) : ast[m].virtual

\* every class above c in its chain has a record
ChainRecorded(c) ==
    \A b \in Cursors :
        InheritsFrom(c, b) => \E j \in Records : structure_list[j].cursor = b

\* C10: the record of a class has the virtual-table slot exactly when the
\* class declares a virtual member and no record of a class above it in
\* its chain has the slot; no two classes of one chain have it.
C10_OneSlotPerChain ==
    LayoutEmitted =>
        /\ \A i \in Records :
              LET c == structure_list[i].cursor
              IN ChainRecorded(c) =>
                     (HasSlot(c) <=>
                         /\ DeclaresVirtual(c)
                         /\ ~\E b \in Cursors : InheritsFrom(c, b) /\ HasSlot(b))
        /\ \A c, d \in Cursors :
              (HasSlot(c) /\ HasSlot(d) /\ c # d) => ~InheritsFrom(d, c)

----------------------------------------------------------------------------
(* Records.  The header declares class K (cursor 1) with a list of fields, *)
(* a size and, possibly, a virtual method (cursor 4); class M (2); and     *)
(* class L (3), annotated or not, with no base, with K, or with K and M.   *)

\* the largest number of fields of K
MaxFields == 2

FieldTypes == {Fund("INT"), Ptr(Ptr(Fund("INT")))}

RECURSIVE FieldLists(_)
FieldLists(n) ==
    IF n = 0 THEN {<<>>}
    ELSE FieldLists(n - 1)
         \cup {Append(l, Field(<<119 + n>>, t)) :
                  l \in {k \in FieldLists(n - 1) : Len(k) = n - 1},
                  t \in FieldTypes}

RecordHeader(fields, size, virtual, bases, annotated) ==
    WithUsr(<<[ClassCursor(<<75>>, 0, <<>>) EXCEPT !.fields = fields, !.size = size],
              ClassCursor(<<77>>, 0, <<>>),
              [ClassCursor(<<76>>, 0, bases)
                  EXCEPT !.annotated = annotated, !.size = 16]>>
            \o (IF virtual
                THEN <<[FunctionCursor("CXX_METHOD", <<109>>, 1, <<>>, FALSE)
                           EXCEPT !.virtual = TRUE]>>
                ELSE <<>>))

InitRecords ==
    /\ \E fields \in FieldLists(MaxFields), size \in {1, 8}, virtual \in BOOLEAN,
          bases \in {<<>>, <<1>>, <<1, 2>>}, annotated \in BOOLEAN :
           ast = RecordHeader(fields, size, virtual, bases, annotated)
    /\ diagnostics = <<FALSE>>
    /\ clock = 1
    /\ hash_seed = 0
    /\ Started

\* one run of main()
NextOnce ==
    \/ GatherHeader \/ SortSymbols \/ EmitPythonApi \/ EmitStructureList
    \/ EmitSymbolTable \/ OpenOutputFile \/ OpenFails \/ WriteOutputFile
    \/ WriteFails

SpecRecords == InitRecords /\ [][NextOnce]_vars

\* the record that line i of the section belongs to
RecordAt(i) == CHOOSE j \in Records : j <= i /\ \A k \in Records : k <= i => k <= j

\* the lines that close a record, and the size assertions
Closings == {i \in 1..Len(structure_list) : structure_list[i].op = "] path=_T"}
SizeChecks == {i \in 1..Len(structure_list) : structure_list[i].op = "assert sizeof"}

ClosingOf(i) == CHOOSE j \in Closings : j > i /\ \A k \in Closings : k > i => j <= k

\* the classes and structs of the symbol table
TableRecords ==
    {c \in Cursors : /\ ast[c].kind \in RecordKinds
                     /\ \E i \in 1..Len(symbols) :
                           \E j \in 1..Len(symbols[i].list) : symbols[i].list[j] = c}

\* the stages of main() after emit_structure_list
PastLayout == pc \in {"emit_symbol_table", "open", "write", "done"}

----------------------------------------------------------------------------
(* Gathering.  The header declares a container (cursor 1: a namespace, a   *)
(* linkage specification, a class, annotated or not, an annotated enum or  *)
(* an annotated function), a declaration d (cursor 2) at the top level or  *)
(* in the container, annotated or not and possibly with one defect, and,   *)
(* when d is a class or struct, an annotated method of d (cursor 3).       *)

Containers == {"namespace", "linkage", "class", "plain class", "enum", "function"}

ScopeKinds ==
    {"CLASS_TEMPLATE", "FUNCTION_TEMPLATE", "CLASS_TEMPLATE_PARTIAL_SPECIALIZATION",
     "ENUM_DECL", "FUNCTION_DECL", "CLASS_DECL", "STRUCT_DECL", "CONSTRUCTOR",
     "DESTRUCTOR", "CXX_METHOD", "VAR_DECL", "TYPEDEF_DECL"}

\* the kinds of the declarations a container holds
KindsIn(container) ==
    IF container = "enum" THEN {"ENUM_CONSTANT_DECL"}
    ELSE IF container = "function" THEN {"PARM_DECL"}
    ELSE IF container \in {"class", "plain class"} THEN ScopeKinds \cup {"FIELD_DECL"}
    ELSE ScopeKinds

DefectsOf(kind) ==
    {"none", "private", "protected"}
    \cup (IF kind \in RecordKinds \cup {"ENUM_DECL"}
          THEN {"incomplete", "anonymous"} ELSE {})
    \cup (IF kind \in FunctionKinds THEN {"internal", "variadic", "va_list"} ELSE {})

ContainerCursor(container) ==
    IF container = "namespace" THEN NamespaceCursor(<<110>>, 0)
    ELSE IF container = "linkage"
    THEN [NamespaceCursor(<<>>, 0) EXCEPT !.kind = "LINKAGE_SPEC"]
    ELSE IF container = "class" THEN ClassCursor(<<99>>, 0, <<>>)
    ELSE IF container = "plain class"
    THEN [ClassCursor(<<99>>, 0, <<>>) EXCEPT !.annotated = FALSE]
    ELSE IF container = "enum" THEN EnumCursor(<<101>>, 0, Fund("INT"))
    ELSE FunctionCursor("FUNCTION_DECL", <<102>>, 0, <<Fund("INT")>>, FALSE)

Declaration(kind, defect, annotated, parent, in_class) ==
    [NoCursor EXCEPT
        !.kind = kind, !.tu = 1, !.parent = parent, !.annotated = annotated,
        !.spelling = IF defect = "anonymous" THEN <<>> ELSE <<100>>,
        !.anonymous = (defect = "anonymous"),
        !.is_definition = (defect # "incomplete"),
        !.access = IF defect = "private" THEN "PRIVATE"
                   ELSE IF defect = "protected" THEN "PROTECTED"
                   ELSE IF in_class \/ kind \in {"CONSTRUCTOR", "DESTRUCTOR", "CXX_METHOD"}
                   THEN "PUBLIC" ELSE "INVALID",
        !.linkage = IF defect = "internal" THEN "INTERNAL" ELSE "EXTERNAL",
        !.variadic = (defect = "variadic"),
        !.va_list = (defect = "va_list"),
        !.constants = IF kind = "ENUM_DECL" THEN <<[name |-> <<65>>, value |-> 1]>>
                      ELSE <<>>,
        !.fields = IF kind \in RecordKinds THEN <<Field(<<120>>, Fund("INT"))>>
                   ELSE <<>>,
        !.size = IF kind \in RecordKinds THEN 4 ELSE 0]

GatherHeaderOf(container, kind, defect, annotated, inside) ==
    WithUsr(<<ContainerCursor(container),
              Declaration(kind, defect, annotated, IF inside THEN 1 ELSE 0,
                          inside /\ container \in {"class", "plain class"})>>
            \o (IF kind \in RecordKinds
                THEN <<FunctionCursor("CXX_METHOD", <<109>>, 2, <<>>, FALSE)>>
                ELSE <<>>))

InitGather ==
    /\ \E container \in Containers, inside \in BOOLEAN, annotated \in BOOLEAN :
          \E kind \in (IF inside THEN KindsIn(container) ELSE ScopeKinds) :
             \E defect \in DefectsOf(kind) :
                ast = GatherHeaderOf(container, kind, defect, annotated, inside)
    /\ diagnostics = <<FALSE>>
    /\ clock = 1
    /\ hash_seed = 0
    /\ Started

NextGather == GatherHeader

SpecGather == InitGather /\ [][NextGather]_vars

\* the declarations that enclose c
RECURSIVE Ancestors(_)
Ancestors(c) ==
    IF ast[c].parent = 0 THEN {}
    ELSE {ast[c].parent} \cup Ancestors(ast[c].parent)

\* the cursors of the symbol table
Gathered ==
    {c \in Cursors : \E i \in 1..Len(symbols) :
                        \E j \in 1..Len(symbols[i].list) : symbols[i].list[j] = c}

\* the kinds that are traversed whether annotated or not
Traversed(c) == ast[c].kind \in {"NAMESPACE", "LINKAGE_SPEC"}

\* the declaration fails the structural rule of its kind, or is of a kind
\* without one
FailsRule(c) ==
    LET public == ast[c].access \in {"PUBLIC", "INVALID"}
        kind == ast[c].kind
    IN IF kind = "ENUM_DECL" THEN ~ast[c].is_definition \/ ~public
       ELSE IF kind = "FUNCTION_DECL"
       THEN ast[c].linkage # "EXTERNAL" \/ ast[c].variadic \/ ast[c].va_list
       ELSE IF kind \in RecordKinds
       THEN ~ast[c].is_definition \/ ast[c].anonymous \/ ~public
       ELSE IF kind \in {"CONSTRUCTOR", "DESTRUCTOR", "CXX_METHOD"}
       THEN ast[c].access # "PUBLIC" \/ ast[c].linkage # "EXTERNAL" \/ ast[c].va_list
            \/ ast[c].variadic
       ELSE TRUE

\* the gatherer is handed c: every declaration that encloses c is a
\* namespace, a linkage specification or an annotated class or struct
Handed(c) ==
    \A a \in Ancestors(c) :
        Traversed(a) \/ (ast[a].kind \in RecordKinds /\ ast[a].annotated)

\* the header has been gathered, or the gathering has raised
GatherEnded == pc \in {"sort", "aborted"}

----------------------------------------------------------------------------
(* Names.  The header declares a namespace (cursor 1), a function (2) at   *)
(* the top level or in the namespace, a class (3) and an unnamed enum (4)  *)
(* at the top level; the three names are drawn from NamePool.              *)

\* f, _F, in and _fields_
NamePool == {<<102>>, <<95, 70>>, <<105, 110>>, <<95, 102, 105, 101, 108, 100, 115, 95>>}

NameHeader(namespace, function, inside, class) ==
    WithUsr(<<NamespaceCursor(namespace, 0),
              FunctionCursor("FUNCTION_DECL", function, IF inside THEN 1 ELSE 0,
                             <<>>, FALSE),
              ClassCursor(class, 0, <<>>),
              EnumCursor(<<>>, 0, Fund("INT"))>>)

InitNames ==
    /\ \E namespace \in NamePool, function \in NamePool, class \in NamePool,
          inside \in BOOLEAN :
           ast = NameHeader(namespace, function, inside, class)
    /\ diagnostics = <<FALSE>>
    /\ clock = 1
    /\ hash_seed = 0
    /\ Started

SpecNames == InitNames /\ [][NextAdd]_vars

\* the name is one symbols_add refuses
Refused(name) ==
    \/ Len(name) > 1 /\ name[1] = 95 /\ name[2] \in 65..90
    \/ name \in python_keywords
    \/ name \in ctypes_reserved

\* the names of the source in the key of cursor c
SourceNames(c) ==
    {ast[a].spelling : a \in {b \in Ancestors(c) \cup {c} : ~ast[b].anonymous}}

\* C15: a call of symbols_add with a named declaration of a refused name
\* raises and inserts nothing, and no key of the symbol table has a
\* component, taken from the source, that is a refused name.
C15_NoReservedNameInKeys ==
    /\ \A i \in 1..Len(inserted) :
          (~ast[inserted[i]].anonymous /\ Refused(ast[inserted[i]].spelling))
          => /\ pc = "aborted"
             /\ i = Len(inserted)
             /\ inserted[i] \notin Gathered
    /\ \A c \in Gathered : \A name \in SourceNames(c) : ~Refused(name)

\* C19: all the declarations under one key of the symbol table are of the
\* same kind.
C19_OneKindPerKey ==
    \A i \in 1..Len(symbols) :
        \A j \in 1..Len(symbols[i].list) :
            ast[symbols[i].list[j]].kind = ast[symbols[i].list[1]].kind

----------------------------------------------------------------------------
(* Enum constants.  The header declares one enum (cursor 1) of two         *)
(* constants A and B over an integer type.  The widths of the types are    *)
(* scaled as the mask is: 64 bits are MaskBits bits here.  The parser      *)
(* reports a constant of an unsigned type as declared or, when the type is *)
(* written through a typedef such as uint64_t, reinterpreted as a signed   *)
(* integer of the width of the type (the comment of line 733).             *)

SignedKinds == {"SHORT", "INT", "LONGLONG"}
UnsignedKinds == {"USHORT", "UINT", "ULONGLONG"}

TypeBits(kind) ==
    IF kind \in {"SHORT", "USHORT"} THEN (MaskBits * 16) \div 64
    ELSE IF kind \in {"INT", "UINT"} THEN (MaskBits * 32) \div 64
    ELSE MaskBits

\* the least, the greatest and one more value of the type
DeclaredValues(kind) ==
    IF kind \in SignedKinds
    THEN {-(2 ^ (TypeBits(kind) - 1)), -1, 2 ^ (TypeBits(kind) - 1) - 1}
    ELSE {0, 2 ^ (TypeBits(kind) - 1), 2 ^ TypeBits(kind) - 1}

\* Cursor.enum_value of a constant declared as v
enum_value(v, kind, reinterpreted) ==
    IF kind \in UnsignedKinds /\ reinterpreted /\ v >= 2 ^ (TypeBits(kind) - 1)
    THEN v - 2 ^ TypeBits(kind)
    ELSE v

EnumHeader(kind, a, b, reinterpreted, scoped) ==
    WithUsr(<<[EnumCursor(<<69>>, 0, IF reinterpreted THEN Typedef(Fund(kind))
                                      ELSE Fund(kind))
                  EXCEPT !.scoped = scoped,
                         !.constants =
                             <<[name |-> <<65>>, declared |-> a,
                                value |-> enum_value(a, kind, reinterpreted)],
                               [name |-> <<66>>, declared |-> b,
                                value |-> enum_value(b, kind, reinterpreted)]>>]>>)

InitEnums ==
    /\ \E kind \in SignedKinds \cup UnsignedKinds, reinterpreted \in BOOLEAN,
          scoped \in BOOLEAN :
          \E a \in DeclaredValues(kind), b \in DeclaredValues(kind) :
             ast = EnumHeader(kind, a, b, reinterpreted, scoped)
    /\ diagnostics = <<FALSE>>
    /\ clock = 1
    /\ hash_seed = 0
    /\ Started

SpecEnums == InitEnums /\ [][NextApi]_vars

\* the constant of enum 1 that line i of the API section is for
ConstantOf(i) ==
    CHOOSE k \in 1..Len(ast[1].constants) :
        ast[1].constants[k].name = python_api[i].name

\* C16: every constant is emitted with the value it is declared with, and
\* the constants of an enum over unsigned int, unsigned long or unsigned
\* long long are emitted in the range of the mask.
C16_ConstantsAsDeclared ==
    ApiEmitted =>
        \A i \in 1..Len(python_api) :
            python_api[i].op = "enum constant"
            => /\ python_api[i].n = ast[1].constants[ConstantOf(i)].declared
               /\ TypeKind(get_canonical(ast[1].enum_type))
                      \in {"UINT", "ULONG", "ULONGLONG"}
                  => python_api[i].n \in 0..(2 ^ MaskBits - 1)

----------------------------------------------------------------------------
(* Command lines.  sys.argv[1:] is any list of up to MaxArgv arguments out *)
(* of -I, a and b; every header named on it declares the function f.       *)

\* the longest command line
MaxArgv == 5

ArgPool == {<<45, 73>>, <<97>>, <<98>>}

RECURSIVE CommandLines(_)
CommandLines(n) ==
    IF n = 0 THEN {<<>>}
    ELSE CommandLines(n - 1)
         \cup {Append(l, arg) : l \in {k \in CommandLines(n - 1) : Len(k) = n - 1},
                                arg \in ArgPool}

\* the positions of argv that do not hold a flag, in ascending order
NonFlagPositions(argv) ==
    SortedInts({i \in 1..Len(argv) : ~StartsWith(argv[i], <<45>>)})

\* the header files the command line names
NamedHeaders(argv) ==
    IF Len(NonFlagPositions(argv)) < 3 THEN 0
    ELSE Len(NonFlagPositions(argv)) - 2

InitArgv ==
    /\ \E argv \in CommandLines(MaxArgv) :
          /\ command_line = [argv |-> argv, compiler_flags |-> <<>>,
                             lib_name |-> <<>>, header_files |-> <<>>,
                             output_file |-> <<>>]
          /\ diagnostics = [i \in 1..NamedHeaders(argv) |-> FALSE]
          /\ ast = [i \in 1..NamedHeaders(argv) |->
                      [FunctionCursor("FUNCTION_DECL", <<102>>, 0, <<>>, FALSE)
                          EXCEPT !.tu = i, !.usr = 1]]
    /\ clock = 1
    /\ hash_seed = 0
    /\ pc = "parse_argv"
    /\ header_index = 1
    /\ symbols = <<>>
    /\ sorted_symbols = <<>>
    /\ api_index = 0
    /\ current_namespace = <<>>
    /\ python_api = <<>>
    /\ structure_list = <<>>
    /\ symbol_table = <<>>
    /\ raised = "none"
    /\ run = 1
    /\ output_file = NoFile
    /\ previous_output = NoFile
    /\ inserted = <<>>
    /\ mapped = NotMapped

NextArgv == ParseArgv \/ NextOnce

SpecArgv == InitArgv /\ [][NextArgv]_vars

\* C17: once the command line is parsed, the flags are the arguments that
\* start with '-', in their order; the library name is the first and the
\* output file the last of the others, and the headers are those between,
\* in their order and at least one.  With fewer than three arguments that
\* are not flags the run ends with the usage error, before any header is
\* parsed and without a file.
C17_ArgvPartition ==
    LET argv == command_line.argv
        others == NonFlagPositions(argv)
    IN pc # "parse_argv" =>
          /\ Len(command_line.compiler_flags) + Len(others) = Len(argv)
          /\ \A i \in 1..Len(command_line.compiler_flags) :
                /\ StartsWith(command_line.compiler_flags[i], <<45>>)
                /\ \E j \in 1..Len(argv) :
                      /\ argv[j] = command_line.compiler_flags[i]
                      /\ Cardinality({k \in 1..j : StartsWith(argv[k], <<45>>)}) = i
          /\ Len(others) >= 3
             => /\ raised # "usage"
                /\ command_line.lib_name = argv[others[1]]
                /\ command_line.output_file = argv[others[Len(others)]]
                /\ command_line.header_files =
                       [i \in 1..(Len(others) - 2) |-> argv[others[i + 1]]]
                /\ Len(command_line.header_files) >= 1
                /\ pc = "done" => header_index = Len(command_line.header_files) + 1
          /\ Len(others) < 3
             => /\ pc = "aborted"
                /\ raised = "usage"
                /\ header_index = 1
                /\ symbols = <<>>
                /\ output_file = NoFile

\* the run over 'a -I a b b' has written its file from two headers
C17_Witness ==
    /\ command_line.argv = <<<<97>>, <<45, 73>>, <<97>>, <<98>>, <<98>>>>
    /\ command_line.header_files = <<<<97>>, <<98>>>>
    /\ command_line.compiler_flags = <<<<45, 73>>>>
    /\ pc = "done"

----------------------------------------------------------------------------
(* The destination path during a run *)

\* C18: at every point of a run the destination holds what it held when the
\* run started, or the whole text the run assembled.
C18_DestinationNeverPartial ==
    \/ output_file = previous_output
    \/ /\ output_file.exists
       /\ output_file.content =
              assemble_output_file(python_api, structure_list, symbol_table)

----------------------------------------------------------------------------
(* Sorting.  The header declares, in one scope, an enum (cursor 1), a      *)
(* function (2) and a struct (3) with names out of SortNames, and the      *)
(* constructor (4), the destructor (5) and a method (6) of the struct.     *)

\* a, b, c and d
SortNames == {<<97>>, <<98>>, <<99>>, <<100>>}

SortHeader(enum, function, struct, method) ==
    WithUsr(<<EnumCursor(enum, 0, Fund("INT")),
              FunctionCursor("FUNCTION_DECL", function, 0, <<>>, FALSE),
              [ClassCursor(struct, 0, <<>>) EXCEPT !.kind = "STRUCT_DECL"],
              FunctionCursor("CONSTRUCTOR", struct, 3, <<>>, FALSE),
              FunctionCursor("DESTRUCTOR", <<126>> \o struct, 3, <<>>, FALSE),
              FunctionCursor("CXX_METHOD", method, 3, <<>>, FALSE)>>)

InitSort ==
    /\ \E enum \in SortNames, function \in SortNames, struct \in SortNames,
          method \in SortNames :
           ast = SortHeader(enum, function, struct, method)
    /\ diagnostics = <<FALSE>>
    /\ clock = 1
    /\ hash_seed = 0
    /\ Started

NextSort == GatherHeader \/ SortSymbols

SpecSort == InitSort /\ [][NextSort]_vars

\* the rank of the kind of a declaration
KindRank(c) ==
    LET kind == ast[c].kind
    IN IF kind = "ENUM_DECL" THEN 1
       ELSE IF kind = "FUNCTION_DECL" THEN 2
       ELSE IF kind = "STRUCT_DECL" THEN 3
       ELSE IF kind = "CLASS_DECL" THEN 4
       ELSE IF kind = "CONSTRUCTOR" THEN 5
       ELSE IF kind = "DESTRUCTOR" THEN 6
       ELSE 7

\* C20: of two entries of sorted_symbols with the same enclosing path, the
\* one of the lower kind rank comes first, and of two of the same rank the
\* one of the lesser name; no two entries tie.
C20_SortedByKindRank ==
    pc = "emit_python_api" =>
        \A i, j \in 1..Len(sorted_symbols) :
            LET c == sorted_symbols[i][1]
                d == sorted_symbols[j][1]
            IN (i < j /\ calculate_namespace(c) = calculate_namespace(d))
               => \/ KindRank(c) < KindRank(d)
                  \/ /\ KindRank(c) = KindRank(d)
                     /\ StrLess(get_dunder_name(c).val, get_dunder_name(d).val)

----------------------------------------------------------------------------
(* Lookups.  The header of the type strings, and the annotated function g  *)
(* or U (cursor 4): a function may have the name of a class of its scope.  *)

LookupHeader(function) ==
    WithUsr(<<ClassCursor(<<75>>, 0, <<>>),
              [EnumCursor(<<69>>, 0, Fund("INT")) EXCEPT !.constants = <<>>],
              [ClassCursor(<<85>>, 0, <<>>) EXCEPT !.annotated = FALSE],
              FunctionCursor("FUNCTION_DECL", function, 0, <<>>, FALSE)>>)

InitLookup ==
    /\ \E function \in {<<103>>, <<85>>} : ast = LookupHeader(function)
    /\ diagnostics = <<FALSE>>
    /\ clock = 1
    /\ hash_seed = 0
    /\ Started

SpecLookup == InitLookup /\ [][NextType]_vars

\* the enum, struct or class that the canonical type is, points to, refers
\* to or is an array of; 0 when there is none
NamedBy(canonical) ==
    LET element == ElementType(canonical)
        target == IF element[1].kind \in PointerKinds THEN Tail(element)
                  ELSE element
    IN IF target # <<>> /\ target[1].kind \in {"RECORD", "ENUM"}
       THEN target[1].n ELSE 0

\* C21: a call of calculate_type_string on a type that is, points to or
\* refers to a named enum, struct or class returns a type string only when
\* that declaration is in the symbol table, and never for an enum behind a
\* pointer or reference.
C21_NamedTypesAreInTheTable ==
    (mapped.result_kind \in type_string_kinds /\ mapped.result.err = "")
    => LET canonical == get_canonical(mapped.type)
           d == NamedBy(canonical)
       IN d # 0
          => /\ d \in Gathered
             /\ ~(ast[d].kind = "ENUM_DECL"
                  /\ ElementType(canonical)[1].kind \in PointerKinds)

----------------------------------------------------------------------------
(* Underlying types.  The header of the type strings with the enum E over  *)
(* an integer type, written as such or through a typedef.                  *)

UnderlyingTypes ==
    {Fund("INT"), Fund("SHORT"), Fund("UCHAR"), Fund("ULONGLONG"),
     Typedef(Fund("SHORT")), Typedef(Fund("ULONGLONG")),
     Typedef(Typedef(Fund("INT")))}

UnderlyingHeader(underlying) ==
    [TypeHeaders EXCEPT ![2].enum_type = underlying]

InitUnderlying ==
    /\ \E underlying \in UnderlyingTypes : ast = UnderlyingHeader(underlying)
    /\ diagnostics = <<FALSE>>
    /\ clock = 1
    /\ hash_seed = 0
    /\ Started

SpecUnderlying == InitUnderlying /\ [][NextType]_vars

\* the errors raise_error reports with a source location
FatalErrors ==
    {"Incomplete type", "Missing definition", "Unsupported definition kind",
     "Cannot pass enums by pointer or reference",
     "Only one pointer or reference allowed in an API type",
     "Constant arrays supported in class and struct layouts only",
     "Return char and wchar_t by reference unsupported"}

\* C22: for the registered enum E by value, calculate_type_string returns
\* the ctypes integer of the underlying type of E for an argument type or a
\* field, and int for a hint, or it raises a fatal error with a location.
C22_EnumByValue ==
    (mapped.result_kind \in type_string_kinds
     /\ get_canonical(mapped.type) = EnumT(2))
    => \/ mapped.result.err \in FatalErrors
       \/ mapped.result =
              IF mapped.result_kind \in {"ctypes_args", "ctypes_struct"}
              THEN Ok(<<Tok(clang_to_ctypes(
                           TypeKind(get_canonical(ast[2].enum_type))))>>)
              ELSE Ok(<<Tok("int")>>)

----------------------------------------------------------------------------
(* Pure virtual methods *)

\* the lines of the API that bind or call the cursor c
LinesOf(c) ==
    {i \in 1..Len(python_api) :
        python_api[i].op \in {"def", "return"} /\ python_api[i].cursor = c}

\* the argument counts the selector of the overloads has a case for
CasesOf(overloads) ==
    LET selector == SelectorFor(overloads)
    IN {selector[i].n : i \in {j \in 1..Len(selector) : selector[j].op = "case"}}

\* C23: the API holds no definition and no call of a pure virtual method,
\* neither direct nor in a branch of a selector; a selector has a case for
\* an argument count only if a candidate that is not pure virtual declares
\* it, and a call with another count reaches the fallback; the API pass
\* aborts only over two candidates of one count that are not pure virtual.
C23_PureVirtualExcluded ==
    /\ ApiEmitted =>
          /\ \A c \in Cursors : ast[c].pure => LinesOf(c) = {}
          /\ \A overloads \in OverloadLists :
                /\ CasesOf(overloads) = {ArgCount(c) : c \in Candidates(overloads)}
                /\ \A n \in 0..(MaxArgs + 1), arg0 \in ArgValues :
                      (\A c \in Candidates(overloads) : ArgCount(c) # n)
                      => RunSelector(SelectorFor(overloads), n, arg0)
                         = ArgCountError(n)
    /\ (pc = "aborted" /\ sorted_symbols # <<>>)
       => \E i \in 1..Len(sorted_symbols) :
             \E c, d \in Candidates(sorted_symbols[i]) :
                c # d /\ ArgCount(c) = ArgCount(d)

\* the API of m(Base&) and a pure virtual m() has been emitted: its
\* selector has the case 1 alone and a call without arguments falls through
C23_Witness ==
    /\ ApiEmitted
    /\ \E overloads \in OverloadLists :
          /\ \E c \in Candidates(overloads) : ArgCount(c) = 1
          /\ \E i \in 1..Len(overloads) :
                ast[overloads[i]].pure /\ ArgCount(overloads[i]) = 0
          /\ CasesOf(overloads) = {1}
          /\ RunSelector(SelectorFor(overloads), 0, Number) = ArgCountError(0)

----------------------------------------------------------------------------
(* The symbol table after gathering *)

IsPrefix(s, t) == Len(s) <= Len(t) /\ SubSeq(t, 1, Len(s)) = s

\* the section changes in a step of the stage alone, and only grows
OwnSection(before, after, stage) ==
    before # after => pc = stage /\ IsPrefix(before, after)

\* C24: from the end of gathering to the end of the run no step changes the
\* symbol table, neither its keys nor the cursors of a list nor their
\* order, and each of the three sections is changed by its own emitter
\* alone, which appends to it.
C24_SymbolsReadOnly ==
    [][(pc # "gather" /\ pc' # "gather")
       => /\ symbols' = symbols
          /\ OwnSection(python_api, python_api', "emit_python_api")
          /\ OwnSection(structure_list, structure_list', "emit_structure_list")
          /\ OwnSection(symbol_table, symbol_table', "emit_symbol_table")]_vars

\* the three sections have been emitted from a table with an overload list
C24_Witness ==
    /\ pc = "open"
    /\ \E i \in 1..Len(symbols) : Len(symbols[i].list) > 1
    /\ python_api # <<>>
    /\ structure_list # <<>>
    /\ symbol_table # <<>>

----------------------------------------------------------------------------
(* Callables.  The header declares class Host (cursor 1) and then free     *)
(* functions f, constructors and the destructor of Host and methods        *)
(* Host::m, static, pure virtual or neither.                               *)

CallableKinds ==
    {"function", "constructor", "destructor", "method", "static", "pure"}

CallableTypes == {<<>>, <<Fund("INT")>>, <<LRef(RecordT(1))>>}

CallableName(kind) ==
    IF kind = "function" THEN <<102>>
    ELSE IF kind = "constructor" THEN <<72, 111, 115, 116>>
    ELSE IF kind = "destructor" THEN <<126, 72, 111, 115, 116>>
    ELSE <<109>>

Callable(kind, types) ==
    IF kind = "function" THEN FunctionCursor("FUNCTION_DECL", CallableName(kind), 0, types, FALSE)
    ELSE IF kind = "constructor"
    THEN FunctionCursor("CONSTRUCTOR", CallableName(kind), 1, types, FALSE)
    ELSE IF kind = "destructor"
    THEN FunctionCursor("DESTRUCTOR", CallableName(kind), 1, <<>>, FALSE)
    ELSE [FunctionCursor("CXX_METHOD", CallableName(kind), 1, types, kind = "pure")
             EXCEPT !.static = (kind = "static")]

\* lists of declarations a compiler accepts: two of one name differ in
\* their parameters
RECURSIVE CallableLists(_)
CallableLists(n) ==
    IF n = 0 THEN {<<>>}
    ELSE LET shorter == CallableLists(n - 1)
             longer == {Append(l, <<kind, types>>) :
                           l \in {x \in shorter : Len(x) = n - 1},
                           kind \in CallableKinds, types \in CallableTypes}
         IN shorter \cup
            {l \in longer :
                /\ \A i \in 1..Len(l) : l[i][1] = "destructor" => l[i][2] = <<>>
                /\ \A i, j \in 1..Len(l) :
                      (i # j /\ CallableName(l[i][1]) = CallableName(l[j][1]))
                      => l[i][2] # l[j][2]}

CallableHeader(list) ==
    WithUsr(<<ClassCursor(<<72, 111, 115, 116>>, 0, <<>>)>>
            \o [i \in 1..Len(list) |-> Callable(list[i][1], list[i][2])])

InitCalls ==
    /\ \E list \in CallableLists(MaxOverloads) \ {<<>>} : ast = CallableHeader(list)
    /\ diagnostics = <<FALSE>>
    /\ clock = 1
    /\ hash_seed = 0
    /\ Started

NextSections ==
    \/ GatherHeader
    \/ SortSymbols
    \/ EmitPythonApi
    \/ EmitStructureList
    \/ EmitSymbolTable

\* the generator up to the end of the symbol table, over every such header
SpecCalls == InitCalls /\ [][NextSections]_vars

\* the three sections have been emitted
SectionsBuilt == pc = "open"

\* the calls of the API: its lines 'return <internal name>(...)'
CallSites == {i \in 1..Len(python_api) : python_api[i].op = "return"}

\* the lines '<internal name>.argtypes=[...]' of the symbol table
ArgTypeLines == {j \in 1..Len(symbol_table) : symbol_table[j].op = ".argtypes="}

\* number of arguments of a call or of an argtypes list, the receiver counted
Passed(line) == Len(line.args) + (IF line.self THEN 1 ELSE 0)

\* C25: for every callable the API calls, the argtypes list of the symbol
\* table has as many entries as the call passes arguments, and it starts
\* with the receiver pointer exactly if the call passes a receiver.
C25_ArgTypesMatchCalls ==
    SectionsBuilt =>
        \A i \in CallSites, j \in ArgTypeLines :
            python_api[i].cursor = symbol_table[j].cursor
            => /\ Passed(python_api[i]) = Passed(symbol_table[j])
               /\ python_api[i].self = symbol_table[j].self

\* the lines '<internal name>=_Cdll.<symbol>' of the symbol table
BindingLines == {j \in 1..Len(symbol_table) : symbol_table[j].op = "=_Cdll."}

\* C26: the symbol table binds a library symbol for a callable exactly if
\* the API calls its internal name: every called name is bound once, and
\* none is bound for a declaration the API leaves out, a pure virtual
\* method.
C26_BoundIffCalled ==
    SectionsBuilt =>
        /\ \A i \in CallSites :
              \E j \in BindingLines :
                 /\ symbol_table[j].name = python_api[i].name
                 /\ \A k \in BindingLines :
                       symbol_table[k].name = python_api[i].name => k = j
        /\ \A j \in BindingLines :
              /\ \E i \in CallSites : python_api[i].name = symbol_table[j].name
              /\ ~ast[symbol_table[j].cursor].pure

\* the lines of a selector that dispatch: its 'return <internal name>(...)'
\* lines, which stand deeper than the one call of a function that is not
\* overloaded
SelectorCalls ==
    {i \in CallSites :
        \E overloads \in OverloadLists :
           \E k \in 1..Len(overloads) : overloads[k] = python_api[i].cursor}

\* C27: every branch of a selector that calls a method which is not static
\* passes the receiver as the first argument, and every branch that calls a
\* static method passes none, whatever the other overloads of the name are.
C27_ReceiverPerBranch ==
    ApiEmitted =>
        \A i \in SelectorCalls :
            python_api[i].self = ~is_staticmethod(python_api[i].cursor)

----------------------------------------------------------------------------
(* Marshaling at the call sites *)

\* the shim the type mapper's view of a parameter calls for: the canonical
\* type decides
ShimOf(type) ==
    LET canonical == get_canonical(type)
    IN IF TypeKind(canonical) = "POINTER"
       THEN IF TypeKind(get_canonical(get_pointee(canonical))) = "VOID"
            THEN "" ELSE "_Pointer_shim"
       ELSE IF TypeKind(canonical) \in ReferenceKinds THEN "_Ctypes.byref"
       ELSE ""

\* the type the check of a first argument is to name: the class a canonical
\* pointer or reference leads to, or the canonical type itself
CheckedType(type) ==
    LET canonical == get_canonical(type)
    IN calculate_type_string(
           IF TypeKind(canonical) \in PointerKinds THEN get_pointee(canonical)
           ELSE canonical,
           symbols, "ctypes_args")

\* C28: at every call site each argument is marshaled as its canonical
\* type calls for: a pointer to a type other than void through
\* _Pointer_shim, a reference by _Ctypes.byref, a void pointer or a value
\* as it is, however the type is spelled; and the isinstance check of a
\* selector names the type the same canonical type leads to.
C28_MarshalingByCanonicalType ==
    ApiEmitted =>
        \A i \in CallSites :
            LET c == python_api[i].cursor
            IN /\ Len(python_api[i].args) = Len(ast[c].args)
               /\ \A k \in 1..Len(ast[c].args) :
                     python_api[i].args[k].shim = ShimOf(ast[c].args[k].type)
               /\ (i > 1 /\ python_api[i - 1].op = "if isinstance")
                  => Ok(python_api[i - 1].ty) = CheckedType(ast[c].args[1].type)

----------------------------------------------------------------------------
(* Written names.  The header declares a namespace (cursor 1) and in it an *)
(* enum E of one constant (2), a class K of one field (3) and a function   *)
(* of one parameter (4); the names of the namespace, the constant, the     *)
(* field, the parameter and the function are drawn from NamePool.          *)

WrittenHeader(namespace, constant, field, parameter, function) ==
    WithUsr(<<NamespaceCursor(namespace, 0),
              [EnumCursor(<<69>>, 1, Fund("INT")) EXCEPT
                  !.constants = <<[name |-> constant, value |-> 1]>>],
              [ClassCursor(<<75>>, 1, <<>>) EXCEPT
                  !.fields = <<Field(field, Fund("INT"))>>],
              [FunctionCursor("FUNCTION_DECL", function, 1, <<Fund("INT")>>, FALSE)
                  EXCEPT !.args = <<Arg(parameter, Fund("INT"))>>]>>)

InitWritten ==
    /\ \E namespace \in NamePool, constant \in NamePool, field \in NamePool,
          parameter \in NamePool, function \in NamePool :
           ast = WrittenHeader(namespace, constant, field, parameter, function)
    /\ diagnostics = <<FALSE>>
    /\ clock = 1
    /\ hash_seed = 0
    /\ Started

SpecWritten == InitWritten /\ [][NextSections]_vars

\* the names of the source a line of the output writes as Python names
WrittenNames(line) ==
    IF line.op \in {"class", "class IntEnum", "enum constant", "enum alias", "field"}
    THEN {line.name}
    ELSE IF line.op = "def"
    THEN {line.name}
         \cup {line.args[k].name :
                 k \in {j \in 1..Len(line.args) : ast[line.cursor].args[j].name # <<>>}}
    ELSE {}

\* C29: no name of the source that the generator refuses as a Python name
\* is written as one into the API or the structure list: not the name of a
\* namespace, an enum constant, a field, a parameter or a bound declaration.
C29_WrittenNamesChecked ==
    /\ \A i \in 1..Len(python_api) :
          \A name \in WrittenNames(python_api[i]) : ~Refused(name)
    /\ \A i \in 1..Len(structure_list) :
          \A name \in WrittenNames(structure_list[i]) : ~Refused(name)

----------------------------------------------------------------------------
(* The assertion of the selector *)

\* the isinstance checks of the API
TypeChecks == {i \in 1..Len(python_api) : python_api[i].op = "if isinstance"}

\* C30: the assertion 'generation > 0' of the selector never fails; an
\* isinstance check is emitted only for a candidate whose first parameter is
\* a class or struct, and a candidate whose first parameter is none, or
\* that has no parameter, is the last branch of its case and unguarded.
C30_ChecksOnlyForClasses ==
    /\ raised # "AssertionError: isinstance checks are only for classes and structs"
    /\ ApiEmitted =>
          /\ \A i \in TypeChecks :
                /\ python_api[i + 1].op = "return"
                /\ Arg0Class(python_api[i + 1].cursor) # 0
                /\ ast[Arg0Class(python_api[i + 1].cursor)].kind \in RecordKinds
          /\ \A i \in SelectorCalls :
                Arg0Class(python_api[i].cursor) = 0
                => /\ python_api[i - 1].op = "case"
                      \/ (i > 2 /\ python_api[i - 1].op = "return"
                                /\ python_api[i - 2].op = "if isinstance")
                   /\ python_api[i + 1].op \in {"case", "case _"}

\* a selector checks the first argument for Base and then calls f(int)
\* without a check
C30_Witness ==
    /\ ApiEmitted
    /\ \E i \in TypeChecks :
          /\ Arg0Class(python_api[i + 1].cursor) = 1
          /\ python_api[i + 2].op = "return"
          /\ Arg0Class(python_api[i + 2].cursor) = 0
          /\ ArgCount(python_api[i + 2].cursor) = 1

====
